---- MODULE Spec2Model ----
(***************************************************************************)
(* A model of the C implementation of nltk.token (src/src/extensions/      *)
(* ctoken.c, ctoken.h): the Location ("Span"), Type ("PropertyBag") and    *)
(* Token ("Annotation") objects, with the two caches they share.           *)
(*                                                                         *)
(* Python objects are records tagged by ob_type.  Heap objects live in     *)
(* numbered cells (locs, types, tokens, lc_heap, pnl_heap); the number of  *)
(* a cell is the object's address, so "the same object" is "the same       *)
(* number".  Every method call is one action; it leaves its arguments and  *)
(* its result in the variable ret.                                         *)
(*                                                                         *)
(* The comparison of location_object.c, the other C implementation of      *)
(* Location, is modelled next to the one of ctoken.c.  The speech programs *)
(* of src/contrib/nltk_contrib/unimelb/460/2004/hawkinsp are modelled as   *)
(* well, each under a specification of its own: FFT_DIT, FeatureExtract    *)
(* and ReadWav of SpeechProc.cpp, and the vector quantizer of              *)
(* vecquant.cpp, whose doubles are binary floating point numbers of        *)
(* MantissaBits significant bits, rounded to nearest even.                 *)
(***************************************************************************)
EXTENDS Integers, Sequences, FiniteSets, TLC

VARIABLES
    locs,          \* the Location objects alive: cell -> nltkLocation / nltkLen1Location
    lc_heap,       \* the location context tuples built so far: id -> (unit, source)
    lc_cache,      \* static PyObject *lc_cache[LC_CACHE_SIZE]
    lc_next_cell,  \* static int next_cell of getLocationContext
    types,         \* the Type objects alive: cell -> nltkType
    pnl_heap,      \* the property name lists built so far: id -> list of names
    pnl_cache,     \* static PyObject *pnl_cache[PNL_CACHE_SIZE]
    pnl_next_cell, \* static int next_cell of getPropertyNameList
    tokens,        \* the Token objects alive: cell -> nltkToken
    ret,           \* the last call: operation, arguments, return value, exception
    input,         \* MOD input[]: the buffer FFT_DIT transforms in place
    fft,           \* the FFT_DIT call: its length, the buffer before it, whether it
                   \* has returned, its return value
    voice,         \* short *voice: the samples handed to FeatureExtract
    featureParameters, \* featureParam: frameWidth and frameStep
    frameNum,      \* unsigned int SpeechProc::frameNum
    features,      \* float **SpeechProc::features: one vector for each frame
    extract,       \* the FeatureExtract call: "idle", "ready", "returned", "killed"
    wavFile,       \* the file ReadWav is asked to read
    build,         \* the build of the program: sizeof(long), NDEBUG
    wav,           \* the ReadWav call: its state, the buffer returned, voiceLength,
                   \* whether fp is open, whether fread wrote past voiceLength
    stdin,         \* vecquant: the vectors not yet read from the standard input
    vecs,          \* vector vecs[MAX_VECTORS]
    num_vectors,   \* int num_vectors
    desired_codewords, \* int desired_codewords
    num_codewords, \* int num_codewords
    cwords,        \* vector cwords[MAX_CODEWORDS]
    vq,            \* vecquant: where the program is, the locals curcwds, d_av and
                   \* cur_d_av of vecquant(), the exit status and message of main()
    wc,            \* static float *wc: the array it points to (0: NULL)
    h,             \* static float *h: the array it points to (0: NULL)
    arrays,        \* the arrays made by new float[]: size, and whether deleted
    instances,     \* the SpeechProc objects: state and Cepstrum_order
    access         \* the last use of wc and h: the call, what it found, how the
                   \* process went on

\* The state of the programs under src/contrib (SpeechProc.cpp, vecquant.cpp).
contribVars == <<input, fft, voice, featureParameters, frameNum, features, extract,
                 wavFile, build, wav, wc, h, arrays, instances, access,
                 stdin, vecs, num_vectors, desired_codewords, num_codewords, cwords, vq>>

\* The tables shared by the SpeechProc objects, and the objects.
tableVars == <<wc, h, arrays, instances, access>>

vqVars == <<stdin, vecs, num_vectors, desired_codewords, num_codewords, cwords, vq>>

vars == <<locs, lc_heap, lc_cache, lc_next_cell,
          types, pnl_heap, pnl_cache, pnl_next_cell, tokens, ret, contribVars>>

locVars == <<locs, lc_heap, lc_cache, lc_next_cell>>
typeVars == <<types, pnl_heap, pnl_cache, pnl_next_cell, tokens>>

(***************************************************************************)
(* Bounds of the model.                                                    *)
(***************************************************************************)
\* Location.__new__ is called with start and end in 0..MaxIndex.
MaxIndex == 2
\* Keyword dictionaries and argument tuples hold at most MaxKeywords entries.
MaxKeywords == 2
\* The cells of the property name list cache (PNL_CACHE_SIZE, 20 in
\* ctoken.h, scaled down so that the cache fills up and evicts).
PnlCacheCells == 2
\* The width of a C long in bits (64 on the platforms of the extension,
\* scaled down to the integers of the model checker).
LongBits == 16

(***************************************************************************)
(* The heap cells.  A call reads at most two objects and builds one.       *)
(***************************************************************************)
LocCells == {1, 2}
TypeCells == {1, 2}
TokenCells == {1, 2}

(***************************************************************************)
(* Python values.                                                          *)
(***************************************************************************)
\* A C NULL pointer (an argument that was not given, an error return).
NULL == [ob_type |-> "NULL"]
Py_None == [ob_type |-> "NoneType"]
PyInt(n) == [ob_type |-> "int", ob_ival |-> n]
\* A string object; ob_sval is the sequence of its character codes.
PyString(s) == [ob_type |-> "str", ob_sval |-> s]
\* A keyword dictionary; items is the sequence of its [name, value] entries
\* in the order PyDict_Next walks them.
PyDict(items) == [ob_type |-> "dict", items |-> items]
\* An argument tuple.
PyTuple(items) == [ob_type |-> "tuple", ob_item |-> items]
\* A pointer to the Location in cell c (the loc of a Token).
PyLocRef(c) == [ob_type |-> "LocationRef", cell |-> c]
\* A cell that holds no object.
Free == [ob_type |-> "free"]

\* No exception set.
NoErr == "none"

\* The range of the long int fields start and end.
LONG_MAX == 2^(LongBits - 1) - 1
LONG_MIN == -(2^(LongBits - 1))

\* The value of an arithmetic expression of type long.  Signed overflow is
\* undefined: the machine addition wraps in two's complement, and a build
\* that traps on overflow aborts the process instead, which ends the
\* behaviour and adds no state.
long(n) == ((n - LONG_MIN) % 2^LongBits) + LONG_MIN

\* The units and sources the callers pass: "W", "w" and the source "s".
UnitArgs == {NULL, PyString(<<87>>), PyString(<<119>>)}
SourceArgs == {NULL, PyString(<<115>>)}
IndexArgs == {PyInt(n) : n \in 0..MaxIndex}

(***************************************************************************)
(* Location helper functions.                                              *)
(***************************************************************************)
isupper(c) == c \in 65..90
tolower(c) == IF isupper(c) THEN c + 32 ELSE c

\* normalizeUnitCase on a string object: the object itself when it holds no
\* upper case character, else a new string, downcased.
normalizeUnitCase(string) ==
    IF \A k \in 1..Len(string.ob_sval) : ~isupper(string.ob_sval[k])
    THEN string
    ELSE PyString([k \in 1..Len(string.ob_sval) |-> tolower(string.ob_sval[k])])

\* What a string built from bytes that lie outside the object looks like.
GarbageString == PyString(<<63>>)

\* nltkLocation__new__ passes Py_None to normalizeUnitCase when no unit is
\* given.  Py_None is no string object: PyString_GET_SIZE and
\* PyString_AS_STRING read past it, and the outcome depends on the bytes
\* found there: Py_None itself (no upper case byte seen) or a new string
\* made of those bytes.
normalizeUnitCaseOutcomes(unit) ==
    IF unit.ob_type = "str"
    THEN {normalizeUnitCase(unit)}
    ELSE {unit, GarbageString}

\* #define LC_CACHE_SIZE 5
LC_CACHE_SIZE == 5

\* The search loop of getLocationContext, from cell i down to (not
\* including) next_cell: the first cell holding an equal (unit, source), or
\* -1.  Units are interned, so pointer equality is equality of the strings.
RECURSIVE lcSearch(_, _, _, _, _, _)
lcSearch(i, next_cell, cache, heap, unit, source) ==
    IF i = next_cell THEN -1
    ELSE IF /\ cache[i + 1] # 0
            /\ unit = heap[cache[i + 1]].unit
            /\ source = heap[cache[i + 1]].source
         THEN i
         ELSE lcSearch((i + LC_CACHE_SIZE - 1) % LC_CACHE_SIZE, next_cell,
                       cache, heap, unit, source)

\* getLocationContext(unit, source), unit already case-normalized: the new
\* heap, cache and next_cell, and the context returned.
getLocationContext(heap, cache, next_cell, unit, source) ==
    LET nc == IF next_cell < 0 THEN 0 ELSE next_cell
        c0 == IF next_cell < 0 THEN [k \in 1..LC_CACHE_SIZE |-> 0] ELSE cache
        hit == lcSearch((nc + LC_CACHE_SIZE - 1) % LC_CACHE_SIZE, nc,
                        c0, heap, unit, source)
    IN  IF hit >= 0
        THEN [heap |-> heap, cache |-> c0, next_cell |-> nc,
              context |-> c0[hit + 1]]
        ELSE [heap |-> Append(heap, [unit |-> unit, source |-> source]),
              cache |-> [c0 EXCEPT ![nc + 1] = Len(heap) + 1],
              next_cell |-> (nc + 1) % LC_CACHE_SIZE,
              context |-> Len(heap) + 1]

\* check_location_contexts_eq behind CHECK_LOCATION_CONTEXTS_EQ: the
\* exception it sets, or NoErr when the units and the sources are equal.
CHECK_LOCATION_CONTEXTS_EQ(heap, c1, c2) ==
    IF c1 = c2 THEN NoErr
    ELSE IF heap[c1].unit # heap[c2].unit THEN "LOC_ERROR_003"
    ELSE IF heap[c1].source # heap[c2].source THEN "LOC_ERROR_004"
    ELSE NoErr

nltkLocation_CheckExact(op) == op.ob_type = "Location"
nltkLen1Location_Check(op) == op.ob_type = "Len1Location"
nltkLocation_Check(op) == nltkLocation_CheckExact(op) \/ nltkLen1Location_Check(op)

nltkLocation_END(op) ==
    IF nltkLen1Location_Check(op) THEN long(op.start + 1) ELSE op.end

nltkLocation_copy(original) ==
    [ob_type |-> "Location", context |-> original.context,
     start |-> original.start, end |-> nltkLocation_END(original)]

(***************************************************************************)
(* Location: constructor and methods.                                      *)
(***************************************************************************)
\* The lowest free cell of a heap, 0 when it is full.
FreeCell(heap) ==
    IF \E c \in DOMAIN heap : heap[c] = Free
    THEN CHOOSE c \in DOMAIN heap :
             heap[c] = Free /\ \A d \in DOMAIN heap : heap[d] = Free => c <= d
    ELSE 0

\* Location.__new__: which of the two object layouts the arguments select.
newLocationType(start, end) ==
    IF end = NULL \/ long(end.ob_ival - start.ob_ival) = 1
    THEN "Len1Location" ELSE "Location"

\* Location.__new__ up to the range check: the exception it raises.
newLocationError(start, end) ==
    IF newLocationType(start, end) # "Len1Location" /\ end.ob_ival < start.ob_ival
    THEN "LOC_ERROR_001" ELSE NoErr

\* The object Location.__new__ fills in, given its location context.
newLocationObject(start, end, context) ==
    IF newLocationType(start, end) = "Len1Location"
    THEN [ob_type |-> "Len1Location", context |-> context, start |-> start.ob_ival]
    ELSE [ob_type |-> "Location", context |-> context,
          start |-> start.ob_ival, end |-> end.ob_ival]

\* Location.length(self)
nltkLocation_length(self) == long(nltkLocation_END(self) - self.start)

\* Location.start_loc(self): self when it is zero-length already (then no
\* object is built), else a copy cut down to the start offset.
nltkLocation_start_loc_isSelf(self) ==
    nltkLocation_CheckExact(self) /\ self.start = self.end

nltkLocation_start_loc(self) ==
    [nltkLocation_copy(self) EXCEPT !.end = self.start]

\* Location.end_loc with the assignment of start_loc (loc->end = self->start).
nltkLocation_end_loc_AsStartLoc(self) ==
    [nltkLocation_copy(self) EXCEPT !.end = self.start]

\* Location.end_loc(self)
nltkLocation_end_loc_isSelf(self) ==
    nltkLocation_CheckExact(self) /\ self.start = self.end

nltkLocation_end_loc(self) ==
    [nltkLocation_copy(self) EXCEPT !.start = nltkLocation_END(self)]

\* Location.prec(self, other), after the context check.
nltkLocation_prec(self, other) ==
    LET s1 == self.start   e1 == nltkLocation_END(self)
        s2 == other.start  e2 == nltkLocation_END(other)
    IN  PyInt(IF e2 <= s1 /\ s2 < e1 THEN 1 ELSE 0)

\* Location.succ without the second test, s2 < e1.
nltkLocation_succ_OneTest(self, other) ==
    PyInt(IF nltkLocation_END(other) <= self.start THEN 1 ELSE 0)

\* Location.succ(self, other), after the context check.
nltkLocation_succ(self, other) ==
    LET s1 == self.start   e1 == nltkLocation_END(self)
        s2 == other.start  e2 == nltkLocation_END(other)
    IN  PyInt(IF e2 <= s1 /\ s2 < e1 THEN 1 ELSE 0)

\* Location.overlaps without the case of two zero-length locations.
nltkLocation_overlaps_TwoCases(self, other) ==
    LET s1 == self.start   e1 == nltkLocation_END(self)
        s2 == other.start  e2 == nltkLocation_END(other)
    IN  PyInt(IF (s1 <= s2 /\ s2 < e1) \/ (s2 <= s1 /\ s1 < e2) THEN 1 ELSE 0)

\* Location.overlaps(self, other), after the context check.
nltkLocation_overlaps(self, other) ==
    LET s1 == self.start   e1 == nltkLocation_END(self)
        s2 == other.start  e2 == nltkLocation_END(other)
    IN  PyInt(IF \/ (s1 <= s2 /\ s2 < e1)
                 \/ (s2 <= s1 /\ s1 < e2)
                 \/ (s1 = s2 /\ s2 = e1 /\ e1 = e2)
              THEN 1 ELSE 0)

\* cmp(self, other) with the type check passing objects of the full layout
\* only (nltkLocation_CheckExact in place of nltkLocation_Check).
nltkLocation__cmp__Exact(heap, self, other) ==
    IF ~nltkLocation_CheckExact(other) THEN -1
    ELSE IF CHECK_LOCATION_CONTEXTS_EQ(heap, self.context, other.context) # NoErr
    THEN -1
    ELSE IF self.start < other.start THEN -1
    ELSE IF self.start > other.start THEN 1
    ELSE IF nltkLocation_END(self) < nltkLocation_END(other) THEN -1
    ELSE IF nltkLocation_END(self) > nltkLocation_END(other) THEN 1
    ELSE 0

\* cmp(self, other) on two Locations.
nltkLocation__cmp__(heap, self, other) ==
    IF ~nltkLocation_Check(other) THEN -1
    ELSE IF CHECK_LOCATION_CONTEXTS_EQ(heap, self.context, other.context) # NoErr
    THEN -1
    ELSE IF self.start < other.start THEN -1
    ELSE IF self.start > other.start THEN 1
    ELSE IF nltkLocation_END(self) < nltkLocation_END(other) THEN -1
    ELSE IF nltkLocation_END(self) > nltkLocation_END(other) THEN 1
    ELSE 0

\* PyErr_Clear(): the error indicator afterwards, whatever it held.
PyErr_Clear(exc) == NoErr

\* The error indicator when cmp(self, other) returns: the exception set by
\* the context check is cleared before the return.
nltkLocation__cmp__exc(heap, self, other) ==
    IF ~nltkLocation_Check(other) THEN NoErr
    ELSE IF CHECK_LOCATION_CONTEXTS_EQ(heap, self.context, other.context) # NoErr
    THEN PyErr_Clear(CHECK_LOCATION_CONTEXTS_EQ(heap, self.context, other.context))
    ELSE NoErr

(***************************************************************************)
(* location_object.c, the other C implementation of Location.  Its objects *)
(* hold unit (a C string or NULL), source, start and end themselves.       *)
(***************************************************************************)
\* The locationObject for the span of a Location: no unit is a NULL unit.
locationObject(heap, op) ==
    [unit |-> IF heap[op.context].unit = Py_None THEN NULL
              ELSE heap[op.context].unit,
     source |-> heap[op.context].source,
     start |-> op.start, end |-> nltkLocation_END(op)]

\* check_units_and_source(loc1, loc2): the exception it sets, NoErr when it
\* returns 1.  Units are compared with strcmp, sources as pointers.
check_units_and_source(loc1, loc2) ==
    IF (loc1.unit = NULL \/ loc2.unit = NULL)
       /\ (~(loc1.unit = NULL) \/ ~(loc2.unit = NULL))
    THEN "Locations have incompatible units"
    ELSE IF loc1.unit # NULL /\ loc2.unit # NULL
            /\ loc1.unit.ob_sval # loc2.unit.ob_sval
    THEN "Locations have incompatible units"
    ELSE IF loc1.source # loc2.source
    THEN "Locations have incompatible sources"
    ELSE NoErr

\* location_compare(loc1, loc2): the value returned and the error indicator
\* at the return, which nothing clears.
location_compare(loc1, loc2) ==
    LET exc == check_units_and_source(loc1, loc2)
    IN  [val |-> IF exc # NoErr THEN -1
                 ELSE IF loc1.start < loc2.start THEN -1
                 ELSE IF loc1.start > loc2.start THEN 1
                 ELSE IF loc1.end < loc2.end THEN -1
                 ELSE IF loc1.end > loc2.end THEN 1
                 ELSE 0,
         exc |-> exc]

\* self + other (Location.union): the exception raised, after the context
\* check.
nltkLocation__add__error(self, other) ==
    IF nltkLocation_END(self) = other.start THEN NoErr
    ELSE IF nltkLocation_END(other) = self.start THEN NoErr
    ELSE "LOC_ERROR_005"

\* self + other, always building from self up to the end of other.
nltkLocation__add__SelfFirst(self, other) ==
    [nltkLocation_copy(self) EXCEPT !.end = nltkLocation_END(other)]

\* self + other: the object built when the two are contiguous.
nltkLocation__add__(self, other) ==
    IF nltkLocation_END(self) = other.start
    THEN [nltkLocation_copy(self) EXCEPT !.end = nltkLocation_END(other)]
    ELSE [nltkLocation_copy(other) EXCEPT !.end = nltkLocation_END(self)]

(***************************************************************************)
(* Location: the calls.  ret.val is the object returned (NULL after an     *)
(* error) and ret.at the cell it lives in: the cell of self when self is   *)
(* returned, a fresh cell when the caller keeps the new object, 0 when the *)
(* caller lets go of it after looking at it.                               *)
(***************************************************************************)
LiveLocs == {c \in DOMAIN locs : locs[c] # Free}

\* The result of a call that returns a Location built from live ones: the
\* caller keeps it (in the lowest free cell) or drops it.
ReturnLocation(name, self, other, obj) ==
    \/ /\ FreeCell(locs) # 0
       /\ locs' = [locs EXCEPT ![FreeCell(locs)] = obj]
       /\ ret' = [op |-> name, self |-> self, other |-> other, args |-> <<>>,
                  val |-> obj, at |-> FreeCell(locs), err |-> NoErr]
       /\ UNCHANGED <<lc_heap, lc_cache, lc_next_cell, typeVars, contribVars>>
    \/ /\ ret' = [op |-> name, self |-> self, other |-> other, args |-> <<>>,
                  val |-> obj, at |-> 0, err |-> NoErr]
       /\ UNCHANGED <<locVars, typeVars, contribVars>>

\* One call Location(start, end, unit, source).
newLocationCall(start, end, unit, source) ==
    LET err == newLocationError(start, end)
        args == [start |-> start, end |-> end]
    IN  IF err # NoErr
        THEN /\ ret' = [op |-> "Location.__new__", self |-> 0, other |-> 0,
                        args |-> args, val |-> NULL, at |-> 0, err |-> err]
             /\ UNCHANGED <<locVars, typeVars, contribVars>>
        ELSE /\ FreeCell(locs) # 0
             /\ \E u \in normalizeUnitCaseOutcomes(IF unit = NULL THEN Py_None ELSE unit) :
                  LET lc == getLocationContext(lc_heap, lc_cache, lc_next_cell, u,
                                IF source = NULL THEN Py_None ELSE source)
                      obj == newLocationObject(start, end, lc.context)
                  IN  /\ lc_heap' = lc.heap
                      /\ lc_cache' = lc.cache
                      /\ lc_next_cell' = lc.next_cell
                      /\ locs' = [locs EXCEPT ![FreeCell(locs)] = obj]
                      /\ ret' = [op |-> "Location.__new__", self |-> 0, other |-> 0,
                                 args |-> args, val |-> obj,
                                 at |-> FreeCell(locs), err |-> NoErr]
             /\ UNCHANGED <<typeVars, contribVars>>

\* An argument of format O! PyInt_Type: a Python int, which holds a long.
isPyInt(v) == v.ob_type = "int" /\ v.ob_ival \in LONG_MIN..LONG_MAX

\* Location(start, end, unit, source) with offsets in 0..MaxIndex.
Location_new ==
    \E start \in IndexArgs, end \in IndexArgs \cup {NULL},
       unit \in UnitArgs, source \in SourceArgs :
        /\ isPyInt(start) /\ (end = NULL \/ isPyInt(end))
        /\ newLocationCall(start, end, unit, source)

\* Location(sys.maxint): the largest int, which PyArg_ParseTupleAndKeywords
\* accepts as start like any other.
Location_new_maxint ==
    /\ isPyInt(PyInt(LONG_MAX))
    /\ newLocationCall(PyInt(LONG_MAX), NULL, NULL, NULL)

\* self.start_loc()
Location_start_loc ==
    \E self \in LiveLocs :
        IF nltkLocation_start_loc_isSelf(locs[self])
        THEN /\ ret' = [op |-> "Location.start_loc", self |-> self, other |-> 0,
                        args |-> <<>>, val |-> locs[self], at |-> self, err |-> NoErr]
             /\ UNCHANGED <<locVars, typeVars, contribVars>>
        ELSE ReturnLocation("Location.start_loc", self, 0,
                            nltkLocation_start_loc(locs[self]))

\* self.end_loc()
Location_end_loc ==
    \E self \in LiveLocs :
        IF nltkLocation_end_loc_isSelf(locs[self])
        THEN /\ ret' = [op |-> "Location.end_loc", self |-> self, other |-> 0,
                        args |-> <<>>, val |-> locs[self], at |-> self, err |-> NoErr]
             /\ UNCHANGED <<locVars, typeVars, contribVars>>
        ELSE ReturnLocation("Location.end_loc", self, 0,
                            nltkLocation_end_loc(locs[self]))

\* self.union(other), self + other
Location_union ==
    \E self \in LiveLocs, other \in LiveLocs :
        LET cerr == CHECK_LOCATION_CONTEXTS_EQ(lc_heap, locs[self].context,
                                               locs[other].context)
            err == IF cerr # NoErr THEN cerr
                   ELSE nltkLocation__add__error(locs[self], locs[other])
        IN  IF err # NoErr
            THEN /\ ret' = [op |-> "Location.union", self |-> self, other |-> other,
                            args |-> <<>>, val |-> NULL, at |-> 0, err |-> err]
                 /\ UNCHANGED <<locVars, typeVars, contribVars>>
            ELSE ReturnLocation("Location.union", self, other,
                                nltkLocation__add__(locs[self], locs[other]))

\* A call of one of the three predicates: the context check, then the test.
LocationPredicate(name, self, other, result) ==
    LET cerr == CHECK_LOCATION_CONTEXTS_EQ(lc_heap, locs[self].context,
                                           locs[other].context)
    IN  /\ ret' = [op |-> name, self |-> self, other |-> other, args |-> <<>>,
                   val |-> IF cerr # NoErr THEN NULL ELSE result,
                   at |-> 0, err |-> cerr]
        /\ UNCHANGED <<locVars, typeVars, contribVars>>

\* self.prec(other)
Location_prec ==
    \E self \in LiveLocs, other \in LiveLocs :
        LocationPredicate("Location.prec", self, other,
                          nltkLocation_prec(locs[self], locs[other]))

\* self.succ(other)
Location_succ ==
    \E self \in LiveLocs, other \in LiveLocs :
        LocationPredicate("Location.succ", self, other,
                          nltkLocation_succ(locs[self], locs[other]))

\* self.overlaps(other)
Location_overlaps ==
    \E self \in LiveLocs, other \in LiveLocs :
        LocationPredicate("Location.overlaps", self, other,
                          nltkLocation_overlaps(locs[self], locs[other]))

(***************************************************************************)
(* Type helper functions.  A property name is an interned string, known by *)
(* its address: names are compared and sorted as pointers.  A property     *)
(* array is a sequence of [name, value] entries.                           *)
(***************************************************************************)
\* The interned names "a", "b" and "c", known by their addresses.
PropNames == {1, 2, 3}
PropValues == {PyInt(1), PyInt(2)}

\* Sequences over S of length at most n.
RECURSIVE SeqsUpTo(_, _)
SeqsUpTo(S, n) ==
    IF n = 0 THEN {<<>>}
    ELSE LET shorter == SeqsUpTo(S, n - 1)
         IN  shorter \cup {Append(q, x) : q \in shorter, x \in S}

\* The keyword dictionaries the callers pass: entries with different names,
\* walked in any order.
KeywordDicts ==
    {PyDict(kw) : kw \in
        {q \in SeqsUpTo([name : PropNames, value : PropValues], MaxKeywords) :
            \A i, j \in 1..Len(q) : i # j => q[i].name # q[j].name}}

\* The argument tuples of select: names, possibly repeated.
NameTuples == {PyTuple(q) : q \in SeqsUpTo(PropNames, MaxKeywords)}

\* PyDict_GetItem(keywords, name) != NULL
DictHas(keywords, name) ==
    \E k \in 1..Len(keywords.items) : keywords.items[k].name = name

\* The inner loop of sortPropertyArray: entries move up from j-1 to j (as
\* C counts them) while the name at j-1 is above cur_key and j > 0.  At
\* j = 0 the loop test still reads the name at j-1 before it finds j > 0
\* false; whatever it reads, the loop ends.
RECURSIVE sortShift(_, _, _)
sortShift(prop_array, j, cur_key) ==
    IF j > 0 /\ prop_array[j].name > cur_key
    THEN sortShift([prop_array EXCEPT ![j + 1] = prop_array[j]], j - 1, cur_key)
    ELSE [prop_array |-> prop_array, j |-> j]

\* The outer loop of sortPropertyArray, from entry i (as C counts them).
RECURSIVE sortFrom(_, _, _)
sortFrom(prop_array, i, size) ==
    IF i >= size THEN prop_array
    ELSE IF prop_array[i].name <= prop_array[i + 1].name
         THEN sortFrom(prop_array, i + 1, size)
         ELSE LET cur == prop_array[i + 1]
                  moved == sortShift(prop_array, i, cur.name)
              IN  sortFrom([moved.prop_array EXCEPT ![moved.j + 1] = cur], i + 1, size)

sortPropertyArray(prop_array, size) == sortFrom(prop_array, 1, size)

\* The entries the inner loop of sortPropertyArray reads and writes, as C
\* counts them, in the order of the code: the loop test reads the name at
\* j-1, then compares j with 0; the body writes entry j from entry j-1.
RECURSIVE sortShiftAccesses(_, _, _)
sortShiftAccesses(prop_array, j, cur_key) ==
    {<<"read", j - 1>>} \cup
        IF j > 0 /\ prop_array[j].name > cur_key
        THEN {<<"write", j>>} \cup
             sortShiftAccesses([prop_array EXCEPT ![j + 1] = prop_array[j]],
                               j - 1, cur_key)
        ELSE {}

\* The entries the outer loop of sortPropertyArray reads and writes, from
\* entry i on.
RECURSIVE sortFromAccesses(_, _, _)
sortFromAccesses(prop_array, i, size) ==
    IF i >= size THEN {}
    ELSE {<<"read", i - 1>>, <<"read", i>>} \cup
         IF prop_array[i].name <= prop_array[i + 1].name
         THEN sortFromAccesses(prop_array, i + 1, size)
         ELSE LET cur == prop_array[i + 1]
                  moved == sortShift(prop_array, i, cur.name)
              IN  sortShiftAccesses(prop_array, i, cur.name)
                  \cup {<<"write", moved.j>>}
                  \cup sortFromAccesses([moved.prop_array EXCEPT ![moved.j + 1] = cur],
                                        i + 1, size)

\* The entries a call of sortPropertyArray(prop_array, size) reads and writes.
sortPropertyArrayAccesses(prop_array, size) == sortFromAccesses(prop_array, 1, size)

\* A list object with its reference count.
PyList(items, refcnt) == [ob_type |-> "list", ob_refcnt |-> refcnt, ob_item |-> items]

\* Py_DECREF of the list at address id: the list is freed when the last
\* reference goes.
ListDecref(heap, id) ==
    IF heap[id].ob_refcnt = 1
    THEN [heap EXCEPT ![id] = Free]
    ELSE [heap EXCEPT ![id].ob_refcnt = @ - 1]

ListIncref(heap, id) == [heap EXCEPT ![id].ob_refcnt = @ + 1]

\* The address a new list gets: the lowest one not in use.
NewListAddress(heap) ==
    IF \E k \in 1..Len(heap) : heap[k] = Free
    THEN CHOOSE k \in 1..Len(heap) :
             heap[k] = Free /\ \A d \in 1..Len(heap) : heap[d] = Free => k <= d
    ELSE Len(heap) + 1

\* PyList_New and the filling of it.
ListAlloc(heap, items, refcnt) ==
    IF NewListAddress(heap) = Len(heap) + 1
    THEN Append(heap, PyList(items, refcnt))
    ELSE [heap EXCEPT ![NewListAddress(heap)] = PyList(items, refcnt)]

\* The search loop of getPropertyNameList, from cell i down to (not
\* including) next_cell: the first cell whose list has the names, or -1.
RECURSIVE pnlSearch(_, _, _, _, _)
pnlSearch(i, next_cell, cache, heap, names) ==
    IF i = next_cell THEN -1
    ELSE IF cache[i + 1] # 0 /\ heap[cache[i + 1]].ob_item = names
         THEN i
         ELSE pnlSearch((i + PnlCacheCells - 1) % PnlCacheCells, next_cell,
                        cache, heap, names)

\* getPropertyNameList that, on a miss, refills the list object it evicts
\* instead of building a new one.
getPropertyNameList_RefillEvicted(heap, cache, next_cell, names) ==
    LET nc == IF next_cell < 0 THEN 0 ELSE next_cell
        c0 == IF next_cell < 0 THEN [k \in 1..PnlCacheCells |-> 0] ELSE cache
        hit == pnlSearch((nc + PnlCacheCells - 1) % PnlCacheCells, nc, c0, heap, names)
    IN  IF hit >= 0
        THEN [heap |-> ListIncref(heap, c0[hit + 1]), cache |-> c0,
              next_cell |-> nc, list |-> c0[hit + 1]]
        ELSE IF c0[nc + 1] # 0
        THEN [heap |-> [heap EXCEPT ![c0[nc + 1]].ob_item = names,
                                    ![c0[nc + 1]].ob_refcnt = @ + 1],
              cache |-> c0,
              next_cell |-> (nc + 1) % PnlCacheCells,
              list |-> c0[nc + 1]]
        ELSE [heap |-> ListAlloc(heap, names, 2),
              cache |-> [c0 EXCEPT ![nc + 1] = NewListAddress(heap)],
              next_cell |-> (nc + 1) % PnlCacheCells,
              list |-> NewListAddress(heap)]

\* getPropertyNameList(prop_array, size), given the names of the first size
\* entries: the new heap, cache and next_cell, and the list returned.
getPropertyNameList(heap, cache, next_cell, names) ==
    LET nc == IF next_cell < 0 THEN 0 ELSE next_cell
        c0 == IF next_cell < 0 THEN [k \in 1..PnlCacheCells |-> 0] ELSE cache
        hit == pnlSearch((nc + PnlCacheCells - 1) % PnlCacheCells, nc, c0, heap, names)
        evicted == IF c0[nc + 1] # 0 THEN ListDecref(heap, c0[nc + 1]) ELSE heap
    IN  IF hit >= 0
        THEN [heap |-> ListIncref(heap, c0[hit + 1]), cache |-> c0,
              next_cell |-> nc, list |-> c0[hit + 1]]
        ELSE [heap |-> ListAlloc(evicted, names, 2),
              cache |-> [c0 EXCEPT ![nc + 1] = NewListAddress(evicted)],
              next_cell |-> (nc + 1) % PnlCacheCells,
              list |-> NewListAddress(evicted)]

\* nltkTypeFromPropArray without the call of sortPropertyArray.
nltkTypeFromPropArray_Unsorted(heap, cache, next_cell, prop_array, size) ==
    LET pnl == getPropertyNameList(heap, cache, next_cell,
                                   [k \in 1..size |-> prop_array[k].name])
    IN  [heap |-> pnl.heap, cache |-> pnl.cache, next_cell |-> pnl.next_cell,
         obj |-> [ob_type |-> "Type", ob_size |-> size, prop_names |-> pnl.list,
                  prop_vals |-> [k \in 1..size |-> prop_array[k].value]]]

\* nltkTypeFromPropArray(type, prop_array, size): the array is sorted, its
\* names go to a property name list, its values into the new object.
nltkTypeFromPropArray(heap, cache, next_cell, prop_array, size) ==
    LET sorted == sortPropertyArray(prop_array, size)
        pnl == getPropertyNameList(heap, cache, next_cell,
                                   [k \in 1..size |-> sorted[k].name])
    IN  [heap |-> pnl.heap, cache |-> pnl.cache, next_cell |-> pnl.next_cell,
         obj |-> [ob_type |-> "Type", ob_size |-> size, prop_names |-> pnl.list,
                  prop_vals |-> [k \in 1..size |-> sorted[k].value]]]

\* nltkType_PROP_NAME(ob, n) and nltkType_PROP_VALUE(ob, n), n from 0.
nltkType_PROP_NAME(heap, ob, n) == heap[ob.prop_names].ob_item[n + 1]
nltkType_PROP_VALUE(ob, n) == ob.prop_vals[n + 1]

(***************************************************************************)
(* Type: constructor and methods.                                          *)
(***************************************************************************)
\* Type.__new__(**keywords): without keyword arguments an empty Type with
\* a property name list of its own (one reference, not cached); else the
\* keyword arguments are copied into the property array as PyDict_Next
\* delivers them.
nltkType__new__(heap, cache, next_cell, keywords) ==
    IF keywords = NULL
    THEN [heap |-> ListAlloc(heap, <<>>, 1), cache |-> cache, next_cell |-> next_cell,
          obj |-> [ob_type |-> "Type", ob_size |-> 0,
                   prop_names |-> NewListAddress(heap), prop_vals |-> <<>>]]
    ELSE nltkTypeFromPropArray(heap, cache, next_cell,
                               keywords.items, Len(keywords.items))

\* Type.__del__(self): the reference to the property name list goes.
nltkType__del__(heap, self) == ListDecref(heap, self.prop_names)

\* The first loop of Type.extend, from property i of self: the properties
\* of self that are not overridden.
RECURSIVE extendCopy(_, _, _, _)
extendCopy(heap, self, keywords, i) ==
    IF i >= self.ob_size THEN <<>>
    ELSE IF ~DictHas(keywords, nltkType_PROP_NAME(heap, self, i))
         THEN <<[name |-> nltkType_PROP_NAME(heap, self, i),
                 value |-> nltkType_PROP_VALUE(self, i)]>>
              \o extendCopy(heap, self, keywords, i + 1)
         ELSE extendCopy(heap, self, keywords, i + 1)

\* Type.extend(self) without keyword arguments returns self.
nltkType_extend_isSelf(keywords) == keywords = NULL

\* Type.extend in which a property of self is not overridden: the
\* properties of self, then the keyword arguments self does not define.
nltkType_extend_SelfWins(heap, cache, next_cell, self, keywords) ==
    LET prop_array ==
            [i \in 1..self.ob_size |->
                [name |-> nltkType_PROP_NAME(heap, self, i - 1),
                 value |-> nltkType_PROP_VALUE(self, i - 1)]]
            \o SelectSeq(keywords.items,
                         LAMBDA e : \A i \in 1..self.ob_size :
                                       nltkType_PROP_NAME(heap, self, i - 1) # e.name)
    IN  nltkTypeFromPropArray(heap, cache, next_cell, prop_array, Len(prop_array))

\* Type.extend(self, **keywords): the properties of self that are not
\* overridden, then the keyword arguments, made into a new Type.
nltkType_extend(heap, cache, next_cell, self, keywords) ==
    LET prop_array == extendCopy(heap, self, keywords, 0) \o keywords.items
    IN  nltkTypeFromPropArray(heap, cache, next_cell, prop_array, Len(prop_array))

\* The loop of Type.select, from property i of self: the properties of
\* self, in the order of self, that are among the arguments.  Arguments
\* that name no property of self are passed over; no exception is set.
RECURSIVE selectCopy(_, _, _, _)
selectCopy(heap, self, args, i) ==
    IF i >= self.ob_size THEN <<>>
    ELSE IF \E j \in 1..Len(args.ob_item) :
                nltkType_PROP_NAME(heap, self, i) = args.ob_item[j]
         THEN <<[name |-> nltkType_PROP_NAME(heap, self, i),
                 value |-> nltkType_PROP_VALUE(self, i)]>>
              \o selectCopy(heap, self, args, i + 1)
         ELSE selectCopy(heap, self, args, i + 1)

\* Type.select(self) without arguments returns self.
nltkType_select_isSelf(args) == Len(args.ob_item) = 0

\* Type.select that copies a property once for every argument naming it.
nltkType_select_PerArgument(heap, cache, next_cell, self, args) ==
    LET index(n) == CHOOSE i \in 0..(self.ob_size - 1) :
                        nltkType_PROP_NAME(heap, self, i) = n
        named == SelectSeq(args.ob_item,
                           LAMBDA n : \E i \in 0..(self.ob_size - 1) :
                                         nltkType_PROP_NAME(heap, self, i) = n)
        prop_array == [j \in 1..Len(named) |->
                          [name |-> named[j],
                           value |-> nltkType_PROP_VALUE(self, index(named[j]))]]
    IN  nltkTypeFromPropArray(heap, cache, next_cell, prop_array, Len(prop_array))

\* Type.select(self, *args): the selected properties made into a new Type.
nltkType_select(heap, cache, next_cell, self, args) ==
    LET prop_array == selectCopy(heap, self, args, 0)
    IN  nltkTypeFromPropArray(heap, cache, next_cell, prop_array, Len(prop_array))

\* The index of the first property of self named property, -1 if none:
\* Type.extend(self, *args, **keywords): the exception of the check that
\* there are no positional arguments.
nltkType_extend_error(args) ==
    IF Len(args.ob_item) # 0 THEN "TYPE_ERROR_003" ELSE NoErr

\* The address of an object that is no string.
NotAString == 0
PyString_Check(o) == o \in PropNames

\* Type.select(self, *args): the exception of the loop that interns the
\* arguments and checks that they are strings.
nltkType_select_error(args) ==
    IF \E i \in 1..Len(args.ob_item) : ~PyString_Check(args.ob_item[i])
    THEN "TYPE_ERROR_006" ELSE NoErr

\* the lookup loop of Type.get, Type.has and getattr.
RECURSIVE typeLookup(_, _, _, _)
typeLookup(heap, self, property, i) ==
    IF i >= self.ob_size THEN -1
    ELSE IF property = nltkType_PROP_NAME(heap, self, i) THEN i
    ELSE typeLookup(heap, self, property, i + 1)

\* Type.get(self, property): the value and the exception.
nltkType_get(heap, self, property) ==
    LET i == typeLookup(heap, self, property, 0)
    IN  IF i >= 0 THEN [val |-> nltkType_PROP_VALUE(self, i), err |-> NoErr]
        ELSE [val |-> NULL, err |-> "TYPE_ERROR_002"]

\* Type.has with the lookup loop starting at the second property.
nltkType_has_FromOne(heap, self, property) ==
    IF typeLookup(heap, self, property, 1) >= 0 THEN PyInt(1) ELSE PyInt(0)

\* Type.has(self, property)
nltkType_has(heap, self, property) ==
    IF typeLookup(heap, self, property, 0) >= 0 THEN PyInt(1) ELSE PyInt(0)

\* Type.properties(self): the names, as a new list.
nltkType_properties(heap, self) ==
    [i \in 1..self.ob_size |-> nltkType_PROP_NAME(heap, self, i - 1)]

\* PyObject_Cmp on two property values.
PyObject_Cmp(v, w) ==
    IF v.ob_ival < w.ob_ival THEN -1 ELSE IF v.ob_ival > w.ob_ival THEN 1 ELSE 0

\* The comparison loop of cmp(self, other) on two Types of one size.
RECURSIVE typeCmpFrom(_, _, _, _)
typeCmpFrom(heap, self, other, i) ==
    IF i >= self.ob_size THEN 0
    ELSE IF nltkType_PROP_NAME(heap, self, i) # nltkType_PROP_NAME(heap, other, i)
         THEN (IF nltkType_PROP_NAME(heap, self, i) < nltkType_PROP_NAME(heap, other, i)
               THEN -1 ELSE 1)
    ELSE IF PyObject_Cmp(nltkType_PROP_VALUE(self, i), nltkType_PROP_VALUE(other, i)) # 0
         THEN PyObject_Cmp(nltkType_PROP_VALUE(self, i), nltkType_PROP_VALUE(other, i))
    ELSE typeCmpFrom(heap, self, other, i + 1)

\* cmp(self, other) on two Types.
nltkType__cmp__(heap, self, other) ==
    IF self.ob_size # other.ob_size
    THEN (IF self.ob_size < other.ob_size THEN -1 ELSE 1)
    ELSE typeCmpFrom(heap, self, other, 0)

\* hash(self): PyObject_Hash of an int is the int.
nltkType__hash__(self) ==
    IF self.ob_size = 0 THEN 0 ELSE nltkType_PROP_VALUE(self, 0).ob_ival

\* setattr(self, name, val): always refused.
nltkType__setattro__(self, name, val) == [result |-> -1, err |-> "TYPE_ERROR_005"]

\* hash(self) of a Location.
nltkLocation__hash__(self) == self.start

(***************************************************************************)
(* Token: constructor and methods.  The type of a Token is the cell of a   *)
(* Type, its loc is None or a pointer to a Location.                       *)
(***************************************************************************)
\* The static default_type of Token.__new__: a Type outside the cells.
default_type == 0

\* Token.__new__
nltkToken__new__ == [ob_type |-> "Token", type |-> default_type, loc |-> Py_None]

\* Token.__init__(self, type, loc=None)
nltkToken__init__(self, type, loc) ==
    [self EXCEPT !.type = type, !.loc = IF loc # NULL THEN loc ELSE Py_None]

\* Token.extend and Token.select without the copy of the loc.
nltkToken_copy_NoLoc(self, type) == [ob_type |-> "Token", type |-> type, loc |-> Py_None]

\* Token.extend and Token.select: the new Token has the loc of self and the
\* type given.
nltkToken_copy(self, type) == [ob_type |-> "Token", type |-> type, loc |-> self.loc]

\* PyObject_Cmp on the locs of two Tokens: 0 for one and the same object,
\* None below everything else, else the comparison of the Locations.
locCmp(heap, cells, v, w) ==
    IF v = w THEN 0
    ELSE IF v = Py_None THEN -1
    ELSE IF w = Py_None THEN 1
    ELSE nltkLocation__cmp__(heap, cells[v.cell], cells[w.cell])

\* cmp(self, other) on two Tokens.
nltkToken__cmp__(lheap, lcells, theap, tcells, self, other) ==
    IF locCmp(lheap, lcells, self.loc, other.loc) # 0
    THEN locCmp(lheap, lcells, self.loc, other.loc)
    ELSE IF self.type = other.type THEN 0
    ELSE nltkType__cmp__(theap, tcells[self.type], tcells[other.type])

\* hash(self) of a Token.
nltkToken__hash__(lcells, tcells, self) ==
    IF self.loc # Py_None
    THEN nltkLocation__hash__(lcells[self.loc.cell])
    ELSE nltkType__hash__(tcells[self.type])

\* setattr(self, name, val) on a Token: always refused.
nltkToken__setattro__(self, name, val) == [result |-> -1, err |-> "TYPE_ERROR_005"]

(***************************************************************************)
(* Type: the calls.  The methods are called with arguments of the types    *)
(* they parse.                                                             *)
(***************************************************************************)
LiveTypes == {c \in DOMAIN types : types[c] # Free}

\* The result of a call that builds a Type (r: the heap, cache and
\* next_cell it leaves, and the object): the caller keeps it, in the lowest
\* free cell.
ReturnType(name, self, args, r) ==
    /\ FreeCell(types) # 0
    /\ types' = [types EXCEPT ![FreeCell(types)] = r.obj]
    /\ pnl_heap' = r.heap
    /\ pnl_cache' = r.cache
    /\ pnl_next_cell' = r.next_cell
    /\ ret' = [op |-> name, self |-> self, other |-> 0, args |-> args,
               val |-> r.obj, at |-> FreeCell(types), err |-> NoErr]
    /\ UNCHANGED <<locVars, tokens, contribVars>>

\* A call that builds nothing.
ReturnValue(name, self, other, args, val, at, err) ==
    /\ ret' = [op |-> name, self |-> self, other |-> other, args |-> args,
               val |-> val, at |-> at, err |-> err]
    /\ UNCHANGED <<locVars, typeVars, contribVars>>

\* Type(**keywords)
Type_new ==
    \E keywords \in {NULL} \cup KeywordDicts :
        ReturnType("Type.__new__", 0, keywords,
                   nltkType__new__(pnl_heap, pnl_cache, pnl_next_cell, keywords))

\* self.extend(**keywords)
Type_extend ==
    \E self \in LiveTypes, keywords \in {NULL} \cup KeywordDicts :
        IF nltkType_extend_isSelf(keywords)
        THEN ReturnValue("Type.extend", self, 0, keywords, types[self], self, NoErr)
        ELSE ReturnType("Type.extend", self, keywords,
                        nltkType_extend(pnl_heap, pnl_cache, pnl_next_cell,
                                        types[self], keywords))

\* self.select(*args)
Type_select ==
    \E self \in LiveTypes, args \in NameTuples :
        IF nltkType_select_isSelf(args)
        THEN ReturnValue("Type.select", self, 0, args, types[self], self, NoErr)
        ELSE ReturnType("Type.select", self, args,
                        nltkType_select(pnl_heap, pnl_cache, pnl_next_cell,
                                        types[self], args))

\* self.get(property)
Type_get ==
    \E self \in LiveTypes, property \in PropNames :
        ReturnValue("Type.get", self, 0, PyTuple(<<property>>),
                    nltkType_get(pnl_heap, types[self], property).val, 0,
                    nltkType_get(pnl_heap, types[self], property).err)

\* self.has(property)
Type_has ==
    \E self \in LiveTypes, property \in PropNames :
        ReturnValue("Type.has", self, 0, PyTuple(<<property>>),
                    nltkType_has(pnl_heap, types[self], property), 0, NoErr)

\* self.properties()
Type_properties ==
    \E self \in LiveTypes :
        ReturnValue("Type.properties", self, 0, PyTuple(<<>>),
                    [ob_type |-> "list", ob_refcnt |-> 1,
                     ob_item |-> nltkType_properties(pnl_heap, types[self])],
                    0, NoErr)

\* cmp(self, other)
Type_cmp ==
    \E self \in LiveTypes, other \in LiveTypes :
        ReturnValue("Type.__cmp__", self, other, PyTuple(<<>>),
                    PyInt(nltkType__cmp__(pnl_heap, types[self], types[other])),
                    0, NoErr)

\* hash(self)
Type_hash ==
    \E self \in LiveTypes :
        ReturnValue("Type.__hash__", self, 0, PyTuple(<<>>),
                    PyInt(nltkType__hash__(types[self])), 0, NoErr)

\* self.name = val
Type_setattr ==
    \E self \in LiveTypes, name \in PropNames, val \in PropValues :
        ReturnValue("Type.__setattr__", self, 0, PyTuple(<<name, val>>),
                    PyInt(nltkType__setattro__(types[self], name, val).result), 0,
                    nltkType__setattro__(types[self], name, val).err)

(***************************************************************************)
(* Token: the calls.  A Token a call returns is kept by the caller.        *)
(***************************************************************************)
LiveTokens == {c \in DOMAIN tokens : tokens[c] # Free}

\* The type of a Token.
TypeOf(token) == types[token.type]

\* Token(type, loc): Token.__new__, then Token.__init__
Token_new ==
    \E type \in LiveTypes,
       loc \in {NULL, Py_None} \cup {PyLocRef(c) : c \in LiveLocs} :
        /\ FreeCell(tokens) # 0
        /\ tokens' = [tokens EXCEPT
                         ![FreeCell(tokens)] = nltkToken__init__(nltkToken__new__, type, loc)]
        /\ ret' = [op |-> "Token.__new__", self |-> 0, other |-> 0,
                   args |-> PyTuple(<<type, loc>>),
                   val |-> nltkToken__init__(nltkToken__new__, type, loc),
                   at |-> FreeCell(tokens), err |-> NoErr]
        /\ UNCHANGED <<locVars, types, pnl_heap, pnl_cache, pnl_next_cell, contribVars>>

\* A call that returns a new Token of a new Type (r as in ReturnType).
ReturnToken(name, self, args, r) ==
    /\ FreeCell(tokens) # 0
    /\ FreeCell(types) # 0
    /\ types' = [types EXCEPT ![FreeCell(types)] = r.obj]
    /\ pnl_heap' = r.heap
    /\ pnl_cache' = r.cache
    /\ pnl_next_cell' = r.next_cell
    /\ tokens' = [tokens EXCEPT
                     ![FreeCell(tokens)] = nltkToken_copy(tokens[self], FreeCell(types))]
    /\ ret' = [op |-> name, self |-> self, other |-> 0, args |-> args,
               val |-> nltkToken_copy(tokens[self], FreeCell(types)),
               at |-> FreeCell(tokens), err |-> NoErr]
    /\ UNCHANGED <<locVars, contribVars>>

\* A call that returns a new Token of the Type of self.
ReturnTokenOfSameType(name, self, args) ==
    /\ FreeCell(tokens) # 0
    /\ tokens' = [tokens EXCEPT
                     ![FreeCell(tokens)] = nltkToken_copy(tokens[self], tokens[self].type)]
    /\ ret' = [op |-> name, self |-> self, other |-> 0, args |-> args,
               val |-> nltkToken_copy(tokens[self], tokens[self].type),
               at |-> FreeCell(tokens), err |-> NoErr]
    /\ UNCHANGED <<locVars, types, pnl_heap, pnl_cache, pnl_next_cell, contribVars>>

\* self.extend(**keywords)
Token_extend ==
    \E self \in LiveTokens, keywords \in {NULL} \cup KeywordDicts :
        IF nltkType_extend_isSelf(keywords)
        THEN ReturnTokenOfSameType("Token.extend", self, keywords)
        ELSE ReturnToken("Token.extend", self, keywords,
                         nltkType_extend(pnl_heap, pnl_cache, pnl_next_cell,
                                         TypeOf(tokens[self]), keywords))

\* self.select(*args)
Token_select ==
    \E self \in LiveTokens, args \in NameTuples :
        IF nltkType_select_isSelf(args)
        THEN ReturnTokenOfSameType("Token.select", self, args)
        ELSE ReturnToken("Token.select", self, args,
                         nltkType_select(pnl_heap, pnl_cache, pnl_next_cell,
                                         TypeOf(tokens[self]), args))

\* Positional arguments, which extend refuses, and argument tuples of
\* select that hold an object that is no string.
PositionalArgs == {PyTuple(<<v>>) : v \in PropValues}
NonStringTuples ==
    {PyTuple(q) : q \in {s \in SeqsUpTo(PropNames \cup {NotAString}, MaxKeywords) :
                             \E i \in 1..Len(s) : s[i] = NotAString}}

\* self.extend(value): nltkType_extend fails, the Token allocated is
\* released and NULL is returned.
Token_extend_positional ==
    \E self \in LiveTokens, args \in PositionalArgs :
        /\ nltkType_extend_error(args) # NoErr
        /\ ReturnValue("Token.extend", self, 0, args, NULL, 0,
                       nltkType_extend_error(args))

\* self.select(..., o, ...) with o no string: nltkType_select fails, the
\* Token allocated is released and NULL is returned.
Token_select_nonstring ==
    \E self \in LiveTokens, args \in NonStringTuples :
        /\ nltkType_select_error(args) # NoErr
        /\ ReturnValue("Token.select", self, 0, args, NULL, 0,
                       nltkType_select_error(args))

\* self.get(property)
Token_get ==
    \E self \in LiveTokens, property \in PropNames :
        ReturnValue("Token.get", self, 0, PyTuple(<<property>>),
                    nltkType_get(pnl_heap, TypeOf(tokens[self]), property).val, 0,
                    nltkType_get(pnl_heap, TypeOf(tokens[self]), property).err)

\* self.has(property)
Token_has ==
    \E self \in LiveTokens, property \in PropNames :
        ReturnValue("Token.has", self, 0, PyTuple(<<property>>),
                    nltkType_has(pnl_heap, TypeOf(tokens[self]), property), 0, NoErr)

\* self.properties()
Token_properties ==
    \E self \in LiveTokens :
        ReturnValue("Token.properties", self, 0, PyTuple(<<>>),
                    [ob_type |-> "list", ob_refcnt |-> 1,
                     ob_item |-> nltkType_properties(pnl_heap, TypeOf(tokens[self]))],
                    0, NoErr)

\* cmp(self, other)
Token_cmp ==
    \E self \in LiveTokens, other \in LiveTokens :
        ReturnValue("Token.__cmp__", self, other, PyTuple(<<>>),
                    PyInt(nltkToken__cmp__(lc_heap, locs, pnl_heap, types,
                                           tokens[self], tokens[other])),
                    0, NoErr)

\* hash(self)
Token_hash ==
    \E self \in LiveTokens :
        ReturnValue("Token.__hash__", self, 0, PyTuple(<<>>),
                    PyInt(nltkToken__hash__(locs, types, tokens[self])), 0, NoErr)

\* self.name = val
Token_setattr ==
    \E self \in LiveTokens, name \in PropNames, val \in PropValues :
        ReturnValue("Token.__setattr__", self, 0, PyTuple(<<name, val>>),
                    PyInt(nltkToken__setattro__(tokens[self], name, val).result), 0,
                    nltkToken__setattro__(tokens[self], name, val).err)

(***************************************************************************)
(* SpeechProc.cpp: the fast Fourier transform.                             *)
(*                                                                         *)
(* A float is modelled by an integer.  The buffers of the model hold       *)
(* multiples of TableSize, so that every halving of a transform the table  *)
(* allows is exact, as it is on the floats of the program.                 *)
(***************************************************************************)
\* MOD input[256] of MFCC_EXTRACT, scaled down: the buffer FFT_DIT is handed
\* holds MaxFrameWidth elements, and its length argument is in
\* 0..MaxFrameWidth.
MaxFrameWidth == 4
\* The elements of C1 and C2 (256 in the program, scaled down to the
\* largest table whose cosines and sines are integers).
TableSize == 4

\* static float C1[256], C2[256], as the constructor fills them:
\* C1[i] = cos(i * 2 * M_PI / 256), C2[i] = - sin(i * 2 * M_PI / 256).
C1 == [i \in 0..(TableSize - 1) |-> <<1, 0, -1, 0>>[i + 1]]
C2 == [i \in 0..(TableSize - 1) |-> <<0, -1, 0, 1>>[i + 1]]

\* W[i].Re = C1[i]; W[i].Im = - C2[i];
W(i) == [Re |-> C1[i], Im |-> -C2[i]]

\* n = 1; m = 0; while (n < length) { n = n<<1; m++; }
RECURSIVE CalculateM(_, _, _)
CalculateM(n, m, length) ==
    IF n < length THEN CalculateM(2 * n, m + 1, length) ELSE [n |-> n, m |-> m]

\* k = nv2; while (j>=k) { j -= k; k = k>>1; } j += k;
RECURSIVE NextReversed(_, _)
NextReversed(j, k) ==
    IF j >= k THEN NextReversed(j - k, k \div 2) ELSE j + k

\* The bit reversal: for (i=0; i<n-1; i++) { if (i<j) swap input[i] and
\* input[j]; advance j }.
RECURSIVE Reverse(_, _, _, _)
Reverse(buf, i, j, n) ==
    IF i >= n - 1
    THEN buf
    ELSE LET swapped == IF i < j
                        THEN [buf EXCEPT ![i] = buf[j], ![j] = buf[i]]
                        ELSE buf
         IN  Reverse(swapped, i + 1, NextReversed(j, n \div 2), n)

\* x / 2 on a float.
Half(x) == x \div 2

\* The body of the innermost loop: input[ip] is assigned first, from the
\* old input[i].
Butterfly(buf, i, ip, u) ==
    LET tr == buf[ip].Re * W(u).Re - buf[ip].Im * W(u).Im
        ti == buf[ip].Re * W(u).Im + buf[ip].Im * W(u).Re
    IN  [buf EXCEPT ![ip] = [Re |-> Half(buf[i].Re - tr),
                             Im |-> Half(buf[i].Im - ti)],
                    ![i] = [Re |-> Half(buf[i].Re + tr),
                            Im |-> Half(buf[i].Im + ti)]]

\* for (le=1,l=1; l<=m; l++) { le = le<<1; le1 = le>>1; u = 0;
\*   w = length/(le1<<1);
\*   for (j=0; j<le1; j++,u+=w) for (i=j; i<n; i+=le) butterfly }
RECURSIVE Stages(_, _, _, _, _, _)
Stages(buf, l, j, i, m, n) ==
    LET le == 2 ^ l
        le1 == le \div 2
        w == n \div (le1 * 2)
    IN  IF l > m THEN buf
        ELSE IF j >= le1 THEN Stages(buf, l + 1, 0, 0, m, n)
        ELSE IF i >= n THEN Stages(buf, l, j + 1, j + 1, m, n)
        ELSE Stages(Butterfly(buf, i, i + le1, j * w), l, j, i + le, m, n)

\* FFT_DIT with the bit reversal ahead of the test of the length.
FFT_DIT_ReverseFirst(buf, length) ==
    LET nm == CalculateM(1, 0, length)
        reversed == Reverse(buf, 0, 0, nm.n)
    IN  IF nm.n # length
        THEN [val |-> -1, input |-> reversed]
        ELSE [val |-> 0, input |-> Stages(reversed, 1, 0, 0, nm.m, nm.n)]

\* int FFT_DIT(MOD *input, int length): the value returned and the buffer
\* left behind.
FFT_DIT(buf, length) ==
    LET nm == CalculateM(1, 0, length)
    IN  IF nm.n # length
        THEN [val |-> -1, input |-> buf]
        ELSE [val |-> 0,
              input |-> Stages(Reverse(buf, 0, 0, nm.n), 1, 0, 0, nm.m, nm.n)]

\* The values of the samples a buffer is filled with.
SampleValues == {0, TableSize}

\* The buffers FFT_DIT is handed: real samples, as MFCC_EXTRACT fills them.
Buffers ==
    [0..(MaxFrameWidth - 1) -> [Re : SampleValues, Im : {0}]]

\* A call of FFT_DIT on the buffer and the length the state holds.
FFT_DIT_call ==
    /\ ~fft.called
    /\ LET r == FFT_DIT(input, fft.length)
       IN  /\ input' = r.input
           /\ fft' = [fft EXCEPT !.called = TRUE, !.val = r.val, !.before = input]
    /\ UNCHANGED <<locVars, typeVars, ret, voice, featureParameters, frameNum,
                   features, extract, wavFile, build, wav, tableVars, vqVars>>

(***************************************************************************)
(* SpeechProc.cpp: feature extraction.                                     *)
(*                                                                         *)
(* The pre-emphasis and the Hamming window of MFCC_EXTRACT are reduced to  *)
(* the difference of the two samples they read, and a cepstral vector is   *)
(* represented by the power spectrum f it is computed from: the Mel filter *)
(* bank, the logarithm and the cosine transform are not modelled.          *)
(***************************************************************************)
\* The width of an unsigned int in bits (32 in the program, scaled down).
UIntBits == 5
\* The sample buffers hold 1..MaxSamples samples.
MaxSamples == 5
\* featureParameters->frameStep is in 1..MaxFrameStep.
MaxFrameStep == 3

\* A value as an unsigned int holds it.
uint(n) == n % (2 ^ UIntBits)

\* The values of a sample (a short).
Samples == {0, 1}

\* voice[k], for a buffer of Len(buf) samples; a read past the end of the
\* buffer gives the value named garbage.
voiceAt(buf, k, garbage) ==
    IF k < Len(buf) THEN buf[k + 1] ELSE garbage

\* void MFCC_EXTRACT(short *voiceFrame, unsigned int frameWidth, ...), s
\* being the function j |-> voiceFrame[j]: the buffer is filled from
\* s[j+1] and s[j], transformed by FFT_DIT, whose return value is dropped,
\* and f[j] is the squared modulus of input[j].
MFCC_EXTRACT(s, frameWidth) ==
    LET filled == [j \in 0..(frameWidth - 1) |->
                      [Re |-> TableSize * (s[j + 1] - s[j]), Im |-> 0]]
        transformed == FFT_DIT(filled, frameWidth).input
    IN  [j \in 0..(frameWidth - 1) |->
            transformed[j].Re * transformed[j].Re
                + transformed[j].Im * transformed[j].Im]

\* frameNum without the decrement of voiceLength (line 135).
frameNumOf_NoDecrement(voiceL, frameWidth, frameStep) ==
    uint(uint(voiceL) - uint(frameWidth - frameStep)) \div frameStep

\* frameNum as FeatureExtract computes it, on unsigned ints.
frameNumOf(voiceL, frameWidth, frameStep) ==
    uint(uint(voiceL - 1) - uint(frameWidth - frameStep)) \div frameStep

\* float ** SpeechProc::FeatureExtract(short *voice, unsigned voiceL): the
\* rows of f, one cepstral vector for each of the frameNum frames.
FeatureExtract(buf, voiceL, frameWidth, frameStep, garbage) ==
    [i \in 1..frameNumOf(voiceL, frameWidth, frameStep) |->
        MFCC_EXTRACT([j \in 0..frameWidth |->
                         voiceAt(buf, (i - 1) * frameStep + j, garbage)],
                     frameWidth)]

\* The indices into voice that FeatureExtract reads: frame i is handed
\* &voice[i*frameStep], of which MFCC_EXTRACT reads s[j] and s[j+1] for
\* j < frameWidth.
sampleIndices(voiceL, frameWidth, frameStep) ==
    {i * frameStep + j + d :
        <<i, j, d>> \in (0..(frameNumOf(voiceL, frameWidth, frameStep) - 1))
                            \X (0..(frameWidth - 1)) \X {0, 1}}

\* The last sample FeatureExtract reads is in the buffer.
readsInside(voiceL, frameWidth, frameStep) ==
    LET n == frameNumOf(voiceL, frameWidth, frameStep)
    IN  n = 0 \/ (n - 1) * frameStep + frameWidth <= voiceL - 1

\* features = getFeatures.FeatureExtract(voiceData, voiceLength);
\* fn = getFeatures.GetFrameNum().  A call that reads past the end of the
\* sample buffer either is killed or goes on with what it finds there.
FeatureExtract_call ==
    /\ extract = "ready"
    /\ LET width == featureParameters.frameWidth
           step == featureParameters.frameStep
       IN  \/ /\ ~readsInside(Len(voice), width, step)
              /\ frameNum' = frameNumOf(Len(voice), width, step)
              /\ extract' = "killed"
              /\ UNCHANGED features
           \/ /\ \E garbage \in Samples :
                     /\ readsInside(Len(voice), width, step) => garbage = 0
                     /\ features' = FeatureExtract(voice, Len(voice), width, step, garbage)
              /\ frameNum' = frameNumOf(Len(voice), width, step)
              /\ extract' = "returned"
    /\ UNCHANGED <<locVars, typeVars, ret, input, fft, voice, featureParameters,
                   wavFile, build, wav, tableVars, vqVars>>

(***************************************************************************)
(* SpeechProc.cpp: reading a WAV file.                                     *)
(*                                                                         *)
(* A file is its first 44 bytes, of which only the unsigned 32-bit number  *)
(* at offset 40 matters, and the 16-bit samples that follow them.  The     *)
(* build decides sizeof(long) and whether assert is compiled in.           *)
(***************************************************************************)
\* The number at offset 40 of a file is in 0..MaxDeclared.
MaxDeclared == 5
\* A file holds at most MaxTail samples behind its first 44 bytes.
MaxTail == 3

\* What an unsigned int holds before anything is stored in it.
Garbage == {0, 3}

\* The files of the model; a file shorter than 44 bytes has no header.
WavFiles ==
    [exists : {FALSE}, hasHeader : {FALSE}, declared : {0}, tail : {<<>>}]
        \cup [exists : {TRUE}, hasHeader : {FALSE}, declared : {0}, tail : {<<>>}]
        \cup UNION {[exists : {TRUE}, hasHeader : {TRUE},
                     declared : 0..MaxDeclared, tail : [1..n -> Samples]] :
                    n \in 0..MaxTail}

\* The builds: sizeof(long) is 4 or 8, NDEBUG is defined or not.
Builds == [sizeof_long : {4, 8}, NDEBUG : BOOLEAN]

\* fseek(fp, 40, SEEK_SET); numRead = fread(&voiceLength, sizeof(long), 1, fp):
\* the items read, the values voiceLength may hold afterwards, and the
\* samples left in the file.  A long of 8 bytes takes the first two samples
\* with it and stores them behind voiceLength; an item read in part leaves
\* an indeterminate value.
readHeader(f, b, uninitialized) ==
    LET need == (b.sizeof_long - 4) \div 2
    IN  IF ~f.hasHeader
        THEN [numRead |-> 0, voiceLength |-> {uninitialized}, rest |-> <<>>,
              overrun |-> FALSE]
        ELSE IF Len(f.tail) < need
        THEN [numRead |-> 0, voiceLength |-> {f.declared, uninitialized},
              rest |-> <<>>, overrun |-> FALSE]
        ELSE [numRead |-> 1, voiceLength |-> {f.declared},
              rest |-> SubSeq(f.tail, need + 1, Len(f.tail)),
              overrun |-> need > 0]

\* short *SpeechProc::ReadWav(char fileName[], unsigned int &voiceLength),
\* raw being the value of voiceLength after the fread of the header.
ReadWav(f, b, uninitialized, raw) ==
    LET hdr == readHeader(f, b, uninitialized)
        length == uint(raw) \div 2
        numRead == IF Len(hdr.rest) < length THEN Len(hdr.rest) ELSE length
    IN  IF ~f.exists
        THEN [state |-> "returned", voice |-> [null |-> TRUE, samples |-> <<>>],
              voiceLength |-> uninitialized, open |-> FALSE, overrun |-> FALSE]
        ELSE IF ~b.NDEBUG /\ (hdr.numRead # 1 \/ length = 0)
        THEN [state |-> "aborted", voice |-> [null |-> TRUE, samples |-> <<>>],
              voiceLength |-> length, open |-> TRUE, overrun |-> hdr.overrun]
        ELSE IF numRead # length
        THEN [state |-> "returned", voice |-> [null |-> TRUE, samples |-> <<>>],
              voiceLength |-> length, open |-> TRUE, overrun |-> hdr.overrun]
        ELSE [state |-> "returned",
              voice |-> [null |-> FALSE, samples |-> SubSeq(hdr.rest, 1, length)],
              voiceLength |-> length, open |-> FALSE, overrun |-> hdr.overrun]

\* voiceData = getFeatures.ReadWav(wavFile, voiceLength), voiceLength being
\* an uninitialized local of the caller.
ReadWav_call ==
    /\ wav.state = "ready"
    /\ \E raw \in readHeader(wavFile, build, wav.voiceLength).voiceLength :
           wav' = ReadWav(wavFile, build, wav.voiceLength, raw)
    /\ UNCHANGED <<locVars, typeVars, ret, input, fft, voice, featureParameters,
                   frameNum, features, extract, wavFile, build, tableVars, vqVars>>

(***************************************************************************)
(* SpeechProc.cpp: the tables wc (lifter) and h (window), which all        *)
(* SpeechProc objects share through two static pointers.  C1 and C2 are    *)
(* static arrays, refilled with the same values by every constructor.      *)
(***************************************************************************)
\* The SpeechProc objects of the program, and the values of Cepstrum_order
\* (12 by default) their parameters hold.
MaxInstances == 2
MaxOrder == 2
Instances == 1..MaxInstances
Orders == 1..MaxOrder

\* new float[n], and the loop that fills it.
newArray(n) == [size |-> n, deleted |-> FALSE]

\* What a use of count elements through the pointer p finds.
tableState(p, count) ==
    IF p = 0 THEN "null"
    ELSE IF arrays[p].deleted THEN "deleted"
    ELSE IF count > arrays[p].size THEN "too short"
    ELSE "live"

\* delete[] p
deleteArray(as, p) == [as EXCEPT ![p].deleted = TRUE]

\* How the process goes on after a call that found the tables in the
\* states w and t: a read or a delete[] of a deleted array, or a read past
\* the end of one, is undefined; it goes unnoticed or ends the process.
outcomes(w, t) ==
    IF w = "live" /\ t = "live" THEN {"continues"} ELSE {"continues", "aborted"}

\* SpeechProc::SpeechProc(fParam): C1 and C2 are filled, then wc and h
\* are pointed at two new arrays, whatever they pointed at before.
SpeechProc_new ==
    \E i \in Instances, order \in Orders :
        /\ access.outcome = "continues"
        /\ instances[i].state = "none"
        /\ arrays' = arrays \o <<newArray(order), newArray(MaxFrameWidth)>>
        /\ wc' = Len(arrays) + 1
        /\ h' = Len(arrays) + 2
        /\ instances' = [instances EXCEPT ![i] = [state |-> "alive",
                                                  Cepstrum_order |-> order]]
        /\ access' = [op |-> "SpeechProc", by |-> i, wc |-> "live", h |-> "live",
                      outcome |-> "continues"]
        /\ UNCHANGED <<locVars, typeVars, ret, input, fft, voice, featureParameters,
                       frameNum, features, extract, wavFile, build, wav, vqVars>>

\* FeatureExtract on a voice of one frame or more: MFCC_EXTRACT reads
\* h[j] for j < frameWidth (line 232), then cc[i][k] *= wc[k] for
\* k < Cepstrum_order (line 164).
SpeechProc_FeatureExtract ==
    \E i \in Instances :
        /\ access.outcome = "continues"
        /\ instances[i].state = "alive"
        /\ LET w == tableState(wc, instances[i].Cepstrum_order)
               t == tableState(h, featureParameters.frameWidth)
           IN  \E o \in outcomes(w, t) :
                   access' = [op |-> "FeatureExtract", by |-> i, wc |-> w, h |-> t,
                              outcome |-> o]
        /\ UNCHANGED <<locVars, typeVars, ret, input, fft, voice, featureParameters,
                       frameNum, features, extract, wavFile, build, wav, vqVars,
                       wc, h, arrays, instances>>

\* SpeechProc::~SpeechProc(): delete[] on both pointers when they are not
\* null; the pointers keep their values.
SpeechProc_delete ==
    \E i \in Instances :
        /\ access.outcome = "continues"
        /\ instances[i].state = "alive"
        /\ instances' = [instances EXCEPT ![i].state = "destroyed"]
        /\ LET w == tableState(wc, 0)
               t == tableState(h, 0)
           IN  /\ arrays' = deleteArray(deleteArray(arrays, wc), h)
               /\ \E o \in outcomes(w, t) :
                      access' = [op |-> "~SpeechProc", by |-> i, wc |-> w, h |-> t,
                                 outcome |-> o]
        /\ UNCHANGED <<locVars, typeVars, ret, input, fft, voice, featureParameters,
                       frameNum, features, extract, wavFile, build, wav, vqVars,
                       wc, h>>

(***************************************************************************)
(* vecquant.cpp, vec.cpp: the vector quantizer.                            *)
(*                                                                         *)
(* A double is a binary floating point number of MantissaBits significant  *)
(* bits, rounded to nearest, ties to even, on a grid of 2^-GridBits: the   *)
(* integer q is the double q / 2^GridBits.                                 *)
(***************************************************************************)
\* The significant bits of a double (53 in the program, scaled down).
MantissaBits == 8
\* The smallest positive double is 2^-GridBits (2^-1074 in the program).
GridBits == 12
\* num_dimensions (12 in pspeech.h, scaled down).
NumDimensions == 1
\* MAX_VECTORS (1500000 in vecquant.cpp, scaled down): the elements of vecs
\* and qval.
MaxVectors == 3
\* MAX_CODEWORDS (128 in pspeech.h, scaled down): the elements of cwords,
\* curcwds, oldcwds, qvec and qc.
MaxCodewords == 4

\* (double) n for an int n.
double(n) == n * (2 ^ GridBits)

RECURSIVE exponentOf(_, _, _)
exponentOf(num, den, e) ==
    IF (2 ^ (e + 1)) * den <= num THEN exponentOf(num, den, e + 1) ELSE e

\* The double nearest to num / den grid units.
round(num, den) ==
    LET abs == IF num < 0 THEN -num ELSE num
        e == exponentOf(abs, den, 0)
        ulp == IF e + 1 > MantissaBits THEN 2 ^ (e + 1 - MantissaBits) ELSE 1
        k == abs \div (den * ulp)
        rem == abs - k * den * ulp
        up == 2 * rem > den * ulp \/ (2 * rem = den * ulp /\ k % 2 = 1)
        nearest == (IF up THEN k + 1 ELSE k) * ulp
    IN  IF num < 0 THEN -nearest ELSE nearest

\* a + b, a - b, a * b and a / b on doubles, b > 0 in a / b.
fadd(a, b) == round(a + b, 1)
fsub(a, b) == round(a - b, 1)
fmul(a, b) == round(a * b, double(1))
fdiv(a, b) == round(a * double(1), b)

\* static const double EPSILON = 0.01
EPSILON == round(double(1), 100)

Dimensions == 1..NumDimensions

\* vec.cpp, the destination being the value of the operator.
vec_zero == [i \in Dimensions |-> 0]
vec_add(a, b) == [i \in Dimensions |-> fadd(a[i], b[i])]
vec_sub(a, b) == [i \in Dimensions |-> fsub(a[i], b[i])]
vec_scale(v, x) == [i \in Dimensions |-> fmul(v[i], x)]

RECURSIVE vec_dot_from(_, _, _, _)
vec_dot_from(a, b, i, result) ==
    IF i > NumDimensions THEN result
    ELSE vec_dot_from(a, b, i + 1, fadd(result, fmul(a[i], b[i])))

vec_dot(a, b) == vec_dot_from(a, b, 1, 0)

\* int closest_codeword(vector cwds[], int ncwds, int v), the loop from
\* codeword i on.
RECURSIVE closest_from(_, _, _, _, _, _)
closest_from(cwds, ncwds, vec, i, best, best_index) ==
    IF i >= ncwds THEN best_index
    ELSE LET d == vec_sub(vec, cwds[i])
             val == vec_dot(d, d)
         IN  IF best_index = -1 \/ val < best
             THEN closest_from(cwds, ncwds, vec, i + 1, val, i)
             ELSE closest_from(cwds, ncwds, vec, i + 1, best, best_index)

closest_codeword(cwds, ncwds, vec) == closest_from(cwds, ncwds, vec, 0, 0, -1)

\* for (i = 0; i < num_vectors; i++) vec_add(acc, acc, vecs[i])
RECURSIVE sumVectors(_, _, _, _)
sumVectors(vs, n, i, acc) ==
    IF i >= n THEN acc ELSE sumVectors(vs, n, i + 1, vec_add(acc, vs[i]))

\* The average distortion: for each vector, the squared distance to the
\* codeword of cwds that q gives it, summed and divided by
\* ((double) num_vectors) * ((double) num_dimensions).
RECURSIVE distortionFrom(_, _, _, _, _, _)
distortionFrom(vs, n, cwds, q, i, acc) ==
    IF i >= n
    THEN fdiv(acc, fmul(double(n), double(NumDimensions)))
    ELSE LET t == vec_sub(vs[i], cwds[q[i]])
         IN  distortionFrom(vs, n, cwds, q, i + 1, fadd(acc, vec_dot(t, t)))

\* vecquant_mean without the vec_scale of line 77.
vecquant_mean_Unscaled(vs, n) ==
    LET mean == sumVectors(vs, n, 0, vec_zero)
    IN  [num_codewords |-> 1,
         cwords0 |-> mean,
         d_av |-> distortionFrom(vs, n, [j \in {0} |-> mean],
                                 [i \in 0..(n - 1) |-> 0], 0, 0)]

\* vecquant(), lines 71-88: one codeword, the mean of the vectors, and d_av.
vecquant_mean(vs, n) ==
    LET mean == vec_scale(sumVectors(vs, n, 0, vec_zero), fdiv(double(1), double(n)))
    IN  [num_codewords |-> 1,
         cwords0 |-> mean,
         d_av |-> distortionFrom(vs, n, [j \in {0} |-> mean],
                                 [i \in 0..(n - 1) |-> 0], 0, 0)]

\* The split, lines 93-98: curcwds[2*i + 1] and curcwds[2*i] from cwords[i].
vecquant_split(cwds, cur, ncwds) ==
    [j \in DOMAIN cur |->
        IF j < 2 * ncwds
        THEN vec_scale(cwds[j \div 2],
                       IF j % 2 = 1 THEN fsub(double(1), EPSILON)
                                    ELSE fadd(double(1), EPSILON))
        ELSE cur[j]]

\* One round of the do-while, lines 105-135: the vectors are given their
\* closest codeword, each codeword becomes the sum of its vectors scaled
\* by 1 / (qc + EPSILON), and cur_d_av is measured against the old ones.
vecquant_iterate(vs, n, cur, ncwds) ==
    LET qval == [i \in 0..(n - 1) |-> closest_codeword(cur, ncwds, vs[i])]
        qc(j) == Cardinality({i \in 0..(n - 1) : qval[i] = j})
        RECURSIVE qvec(_, _, _)
        qvec(j, i, acc) ==
            IF i >= n THEN acc
            ELSE qvec(j, i + 1, IF qval[i] = j THEN vec_add(acc, vs[i]) ELSE acc)
    IN  [curcwds |-> [j \in DOMAIN cur |->
                         IF j < ncwds
                         THEN vec_scale(qvec(j, 0, vec_zero),
                                        fdiv(double(1), fadd(double(qc(j)), EPSILON)))
                         ELSE cur[j]],
         cur_d_av |-> distortionFrom(vs, n, cur, qval, 0, 0)]

\* (old_d_av - cur_d_av) / old_d_av > EPSILON; a division by 0.0 gives an
\* infinity of the sign of the numerator, or a NaN, which compares false.
vecquant_again(old_d_av, cur_d_av) ==
    IF old_d_av = 0
    THEN fsub(old_d_av, cur_d_av) > 0
    ELSE fdiv(fsub(old_d_av, cur_d_av), old_d_av) > EPSILON

\* The values of a component of an input vector: 1.0 and 2.0.
InputValues == {double(1), double(2)}
InputVectors == [Dimensions -> InputValues]

\* The numbers atoi(argv[1]) gives.
DesiredCodewords == (-1)..(MaxCodewords + 1)

ZeroVectors(n) == [j \in 0..(n - 1) |-> vec_zero]

speechVars == <<input, fft, voice, featureParameters, frameNum, features, extract,
                wavFile, build, wav, tableVars>>

\* main(), lines 150-154: the argument count is tested and argv[1] converted.
main_arguments ==
    /\ vq.pc = "main"
    /\ \E argc \in {1, 2}, n \in DesiredCodewords :
           IF argc < 2
           THEN /\ n = 0
                /\ vq' = [vq EXCEPT !.pc = "exit", !.status = "EXIT_FAILURE",
                                    !.stderr = "Need an argument (# codewords)"]
                /\ UNCHANGED desired_codewords
           ELSE /\ desired_codewords' = n
                /\ vq' = [vq EXCEPT !.pc = "read"]
    /\ UNCHANGED <<locVars, typeVars, ret, speechVars,
                   stdin, vecs, num_vectors, num_codewords, cwords>>

\* main(), lines 155-170: one turn of while (1).  The capacity is tested
\* first, then fscanf(stdin, "[ ") and feof(stdin), then a vector is read
\* into vecs[num_vectors].
main_read ==
    /\ vq.pc = "read"
    /\ IF num_vectors >= MaxVectors
       THEN /\ vq' = [vq EXCEPT !.pc = "exit", !.status = "EXIT_FAILURE",
                                !.stderr = "Too many input vectors!"]
            /\ UNCHANGED <<stdin, vecs, num_vectors>>
       ELSE IF stdin = <<>>
       THEN /\ vq' = [vq EXCEPT !.pc = "vecquant"]
            /\ UNCHANGED <<stdin, vecs, num_vectors>>
       ELSE /\ vecs' = [vecs EXCEPT ![num_vectors] = Head(stdin)]
            /\ stdin' = Tail(stdin)
            /\ num_vectors' = num_vectors + 1
            /\ UNCHANGED vq
    /\ UNCHANGED <<locVars, typeVars, ret, speechVars,
                   desired_codewords, num_codewords, cwords>>

\* vecquant(), lines 71-88.
vecquant_start ==
    /\ vq.pc = "vecquant"
    /\ LET m == vecquant_mean(vecs, num_vectors)
       IN  /\ num_codewords' = m.num_codewords
           /\ cwords' = [cwords EXCEPT ![0] = m.cwords0]
           /\ vq' = [vq EXCEPT !.pc = "while", !.d_av = m.d_av]
    /\ UNCHANGED <<locVars, typeVars, ret, speechVars,
                   stdin, vecs, num_vectors, desired_codewords>>

\* The indices into curcwds that the split loop (lines 93-98) writes,
\* which are the indices into curcwds, oldcwds, qvec, qc and cwords used
\* until the next split.
splitIndices(ncwds) ==
    {2 * i + d : <<i, d>> \in (0..(ncwds - 1)) \X {0, 1}}

\* vecquant_double with the codewords counted up by one.
vecquant_double_ByOne ==
    /\ vq.pc = "while"
    /\ num_codewords < desired_codewords
    /\ \A k \in splitIndices(num_codewords) : k < MaxCodewords
    /\ num_codewords' = num_codewords + 1
    /\ vq' = [vq EXCEPT !.pc = "iterate",
                        !.curcwds = vecquant_split(cwords, vq.curcwds, num_codewords),
                        !.cur_d_av = vq.d_av]
    /\ UNCHANGED <<locVars, typeVars, ret, speechVars,
                   stdin, vecs, num_vectors, desired_codewords, cwords>>

\* vecquant(), lines 90-102: the test of while holds; the codewords are
\* split and their number doubled.
vecquant_double ==
    /\ vq.pc = "while"
    /\ num_codewords < desired_codewords
    /\ \A k \in splitIndices(num_codewords) : k < MaxCodewords
    /\ num_codewords' = num_codewords * 2
    /\ vq' = [vq EXCEPT !.pc = "iterate",
                        !.curcwds = vecquant_split(cwords, vq.curcwds, num_codewords),
                        !.cur_d_av = vq.d_av]
    /\ UNCHANGED <<locVars, typeVars, ret, speechVars,
                   stdin, vecs, num_vectors, desired_codewords, cwords>>

\* vecquant(), lines 90-98, when the split does not fit: the loop writes
\* curcwds[2*i] and curcwds[2*i + 1] past the end of the array, into the
\* stack frame of vecquant.  The process is killed, or goes on with
\* corrupted memory, where the model does not follow it.
vecquant_overrun ==
    /\ vq.pc = "while"
    /\ num_codewords < desired_codewords
    /\ \E k \in splitIndices(num_codewords) : k >= MaxCodewords
    /\ \E o \in {"killed", "corrupted"} :
           vq' = [vq EXCEPT !.pc = "exit", !.status = o]
    /\ UNCHANGED <<locVars, typeVars, ret, speechVars,
                   stdin, vecs, num_vectors, desired_codewords, num_codewords,
                   cwords>>

\* vecquant(), lines 103-136: one round of do ... while.
vecquant_round ==
    /\ vq.pc = "iterate"
    /\ LET r == vecquant_iterate(vecs, num_vectors, vq.curcwds, num_codewords)
       IN  vq' = [vq EXCEPT !.pc = IF vecquant_again(vq.cur_d_av, r.cur_d_av)
                                   THEN "iterate" ELSE "copy",
                            !.curcwds = r.curcwds,
                            !.cur_d_av = r.cur_d_av]
    /\ UNCHANGED <<locVars, typeVars, ret, speechVars,
                   stdin, vecs, num_vectors, desired_codewords, num_codewords,
                   cwords>>

\* vecquant(), lines 138-142: d_av = cur_d_av; cwords[i] = curcwds[i].
vecquant_copy ==
    /\ vq.pc = "copy"
    /\ cwords' = [j \in DOMAIN cwords |->
                     IF j < num_codewords THEN vq.curcwds[j] ELSE cwords[j]]
    /\ vq' = [vq EXCEPT !.pc = "while", !.d_av = vq.cur_d_av]
    /\ UNCHANGED <<locVars, typeVars, ret, speechVars,
                   stdin, vecs, num_vectors, desired_codewords, num_codewords>>

\* vecquant(), line 90 and 145: the test of while fails; vecquant returns.
vecquant_return ==
    /\ vq.pc = "while"
    /\ ~(num_codewords < desired_codewords)
    /\ vq' = [vq EXCEPT !.pc = "return"]
    /\ UNCHANGED <<locVars, typeVars, ret, speechVars,
                   stdin, vecs, num_vectors, desired_codewords, num_codewords,
                   cwords>>

(***************************************************************************)
(* The initial state: no object yet, the statics as the C runtime zeroes   *)
(* or initializes them.                                                    *)
(***************************************************************************)
NoObjects ==
    /\ locs = [c \in LocCells |-> Free]
    /\ lc_heap = <<>>
    /\ lc_cache = [k \in 1..LC_CACHE_SIZE |-> 0]
    /\ lc_next_cell = -1
    /\ types = [c \in TypeCells |-> Free]
    /\ pnl_heap = <<>>
    /\ pnl_cache = [k \in 1..PnlCacheCells |-> 0]
    /\ pnl_next_cell = -1
    /\ tokens = [c \in TokenCells |-> Free]
    /\ ret = [op |-> "none", self |-> 0, other |-> 0, args |-> <<>>,
              val |-> NULL, at |-> 0, err |-> NoErr]

\* A SpeechProc as its constructor leaves it: frameNum = 0, no samples read.
\* The default featureParam is frameStep = 100, frameWidth = 256.
NoExtraction ==
    /\ voice = <<>>
    /\ featureParameters = [frameWidth |-> MaxFrameWidth, frameStep |-> 1]
    /\ frameNum = 0
    /\ features = <<>>
    /\ extract = "idle"

\* No file has been read.
NoWav ==
    /\ wavFile = [exists |-> FALSE, hasHeader |-> FALSE, declared |-> 0,
                  tail |-> <<>>]
    /\ build = [sizeof_long |-> 4, NDEBUG |-> FALSE]
    /\ wav = [state |-> "idle", voice |-> [null |-> TRUE, samples |-> <<>>],
              voiceLength |-> 0, open |-> FALSE, overrun |-> FALSE]

\* vecquant as it is loaded: the globals zeroed, desired_codewords = 64.
NoQuantizer ==
    /\ stdin = <<>>
    /\ vecs = ZeroVectors(MaxVectors)
    /\ num_vectors = 0
    /\ desired_codewords = 64
    /\ num_codewords = 0
    /\ cwords = ZeroVectors(MaxCodewords)
    /\ vq = [pc |-> "idle", curcwds |-> ZeroVectors(MaxCodewords), d_av |-> 0,
             cur_d_av |-> 0, status |-> "none", stderr |-> ""]

\* No SpeechProc object has been made: the static pointers are null.
NoTables ==
    /\ wc = 0
    /\ h = 0
    /\ arrays = <<>>
    /\ instances = [i \in Instances |-> [state |-> "none", Cepstrum_order |-> 0]]
    /\ access = [op |-> "none", by |-> 0, wc |-> "null", h |-> "null",
                 outcome |-> "continues"]

\* The speech front end has not run: no call of FFT_DIT.
NoSpeech ==
    /\ input = [i \in 0..(MaxFrameWidth - 1) |-> [Re |-> 0, Im |-> 0]]
    /\ fft = [length |-> 0, before |-> input, called |-> FALSE, val |-> 0]
    /\ NoExtraction
    /\ NoWav
    /\ NoTables

\* The programs under src/contrib have not run.
ContribIdle == NoSpeech /\ NoQuantizer

Init == NoObjects /\ ContribIdle

\* The Location calls.
NextLoc ==
    \/ Location_new
    \/ Location_start_loc
    \/ Location_end_loc
    \/ Location_union
    \/ Location_prec
    \/ Location_succ
    \/ Location_overlaps

SpecLoc == Init /\ [][NextLoc]_vars

\* The Location calls, the offset sys.maxint among the arguments.
NextLocMaxint ==
    \/ Location_new_maxint
    \/ NextLoc

SpecLocMaxint == Init /\ [][NextLocMaxint]_vars

\* The Type calls.
NextType ==
    \/ Type_new
    \/ Type_extend
    \/ Type_select
    \/ Type_get
    \/ Type_has
    \/ Type_properties
    \/ Type_cmp
    \/ Type_hash
    \/ Type_setattr

SpecType == Init /\ [][NextType]_vars

\* The state the Token calls are followed from: the program has made
\*     loc = Location(0);  t = Type(a=1, b=2);  Type(c=1);  Token(t, loc)
\* and kept loc, t and the Token.  The property name list cache is full,
\* and the list of t is in the cell that the next miss evicts.
InitToken ==
    LET lc == getLocationContext(<<>>, [k \in 1..LC_CACHE_SIZE |-> 0], -1,
                                 Py_None, Py_None)
        loc == newLocationObject(PyInt(0), NULL, lc.context)
        t == nltkType__new__(<<>>, [k \in 1..PnlCacheCells |-> 0], -1,
                             PyDict(<<[name |-> 2, value |-> PyInt(2)],
                                      [name |-> 1, value |-> PyInt(1)]>>))
        u == nltkType__new__(t.heap, t.cache, t.next_cell,
                             PyDict(<<[name |-> 3, value |-> PyInt(1)]>>))
        token == nltkToken__init__(nltkToken__new__, 1, PyLocRef(1))
    IN  /\ locs = [c \in LocCells |-> IF c = 1 THEN loc ELSE Free]
        /\ lc_heap = lc.heap
        /\ lc_cache = lc.cache
        /\ lc_next_cell = lc.next_cell
        /\ types = [c \in TypeCells |-> IF c = 1 THEN t.obj ELSE Free]
        /\ pnl_heap = nltkType__del__(u.heap, u.obj)
        /\ pnl_cache = u.cache
        /\ pnl_next_cell = u.next_cell
        /\ tokens = [c \in TokenCells |-> IF c = 1 THEN token ELSE Free]
        /\ ret = [op |-> "Token.__new__", self |-> 0, other |-> 0,
                  args |-> PyTuple(<<1, PyLocRef(1)>>),
                  val |-> token, at |-> 1, err |-> NoErr]
        /\ ContribIdle

\* The Type and Token calls.
NextToken ==
    \/ NextType
    \/ Token_new
    \/ Token_extend
    \/ Token_select
    \/ Token_extend_positional
    \/ Token_select_nonstring
    \/ Token_get
    \/ Token_has
    \/ Token_properties
    \/ Token_cmp
    \/ Token_hash
    \/ Token_setattr

SpecToken == InitToken /\ [][NextToken]_vars

\* The SpeechProc objects made, used and destroyed in any order.
NextTables ==
    \/ SpeechProc_new
    \/ SpeechProc_FeatureExtract
    \/ SpeechProc_delete

SpecTables == Init /\ [][NextTables]_vars

\* FFT_DIT on every buffer and every length of the model.
InitFFT ==
    /\ NoObjects
    /\ input \in Buffers
    /\ \E length \in 0..MaxFrameWidth :
           fft = [length |-> length, before |-> input,
                  called |-> FALSE, val |-> 0]
    /\ NoExtraction
    /\ NoWav
    /\ NoTables
    /\ NoQuantizer

NextFFT ==
    \/ FFT_DIT_call

SpecFFT == InitFFT /\ [][NextFFT]_vars

\* FeatureExtract on every sample buffer, frame width and frame step of the
\* model: a SpeechProc has been constructed and the samples have been read.
InitFeature ==
    /\ NoObjects
    /\ input = [i \in 0..(MaxFrameWidth - 1) |-> [Re |-> 0, Im |-> 0]]
    /\ fft = [length |-> 0, before |-> input, called |-> FALSE, val |-> 0]
    /\ \E n \in 1..MaxSamples : voice \in [1..n -> Samples]
    /\ featureParameters \in [frameWidth : 1..MaxFrameWidth,
                              frameStep : 1..MaxFrameStep]
    /\ frameNum = 0
    /\ features = <<>>
    /\ extract = "ready"
    /\ NoWav
    /\ NoTables
    /\ NoQuantizer

NextFeature ==
    \/ FeatureExtract_call

SpecFeature == InitFeature /\ [][NextFeature]_vars

\* ReadWav on every file and build of the model.
InitWav ==
    /\ NoObjects
    /\ input = [i \in 0..(MaxFrameWidth - 1) |-> [Re |-> 0, Im |-> 0]]
    /\ fft = [length |-> 0, before |-> input, called |-> FALSE, val |-> 0]
    /\ NoExtraction
    /\ wavFile \in WavFiles
    /\ build \in Builds
    /\ \E uninitialized \in Garbage :
           wav = [state |-> "ready", voice |-> [null |-> TRUE, samples |-> <<>>],
                  voiceLength |-> uninitialized, open |-> FALSE,
                  overrun |-> FALSE]
    /\ NoTables
    /\ NoQuantizer

NextWav ==
    \/ ReadWav_call

SpecWav == InitWav /\ [][NextWav]_vars

\* main() of vecquant on every input of at most MaxVectors + 1 vectors,
\* up to its call of vecquant().
InitReader ==
    /\ NoObjects
    /\ NoSpeech
    /\ \E n \in 0..(MaxVectors + 1) : stdin \in [1..n -> InputVectors]
    /\ vecs = ZeroVectors(MaxVectors)
    /\ num_vectors = 0
    /\ desired_codewords = 64
    /\ num_codewords = 0
    /\ cwords = ZeroVectors(MaxCodewords)
    /\ vq = [pc |-> "main", curcwds |-> ZeroVectors(MaxCodewords), d_av |-> 0,
             cur_d_av |-> 0, status |-> "none", stderr |-> ""]

NextReader ==
    \/ main_arguments
    \/ main_read

SpecReader == InitReader /\ [][NextReader]_vars

\* vecquant() on every non-empty set of vectors main() can have read and
\* every number of codewords up to one more than the arrays have room for.
InitQuantizer ==
    /\ NoObjects
    /\ NoSpeech
    /\ stdin = <<>>
    /\ num_vectors \in 1..MaxVectors
    /\ \E read \in [0..(num_vectors - 1) -> InputVectors] :
           vecs = [j \in 0..(MaxVectors - 1) |->
                      IF j < num_vectors THEN read[j] ELSE vec_zero]
    /\ desired_codewords \in DesiredCodewords
    /\ num_codewords = 0
    /\ cwords = ZeroVectors(MaxCodewords)
    /\ vq = [pc |-> "vecquant", curcwds |-> ZeroVectors(MaxCodewords), d_av |-> 0,
             cur_d_av |-> 0, status |-> "none", stderr |-> ""]

NextQuantizer ==
    \/ vecquant_start
    \/ vecquant_double
    \/ vecquant_overrun
    \/ vecquant_round
    \/ vecquant_copy
    \/ vecquant_return

SpecQuantizer == InitQuantizer /\ [][NextQuantizer]_vars

\* vecquant() as a running process: it takes its next step as long as it
\* has one.  The last two conjuncts are WF_vars(vecquant_start) and
\* WF_vars(vecquant_round) written out, each of these steps being enabled
\* exactly at its place in the program.
SpecQuantizerFair ==
    /\ SpecQuantizer
    /\ WF_vars(vecquant_double \/ vecquant_overrun \/ vecquant_copy
                   \/ vecquant_return)
    /\ []<>(vq.pc # "vecquant") \/ []<><<vecquant_start>>_vars
    /\ []<>(vq.pc # "iterate") \/ []<><<vecquant_round>>_vars

(***************************************************************************)
(* Properties of Location.                                                 *)
(***************************************************************************)
\* The (unit, source) of a Location.
ContextOf(loc) == lc_heap[loc.context]
IsLocation(obj) == obj.ob_type \in {"Location", "Len1Location"}
Min(a, b) == IF a <= b THEN a ELSE b
Max(a, b) == IF a >= b THEN a ELSE b

\* C1: every Location alive, and every Location a call returns, has
\* end >= start; Location.__new__ raises LOC_ERROR_001 exactly when it is
\* given an end below start, and then returns no object.  (Holds of the
\* calls with offsets in 0..MaxIndex, SpecLoc; not of SpecLocMaxint.)
C1_EndNotBeforeStart ==
    /\ \A c \in LiveLocs : nltkLocation_END(locs[c]) >= locs[c].start
    /\ IsLocation(ret.val) => nltkLocation_END(ret.val) >= ret.val.start
    /\ ret.op = "Location.__new__" =>
          /\ (ret.err = "LOC_ERROR_001") <=>
                (ret.args.end # NULL /\ ret.args.end.ob_ival < ret.args.start.ob_ival)
          /\ ret.err = "LOC_ERROR_001" => ret.val = NULL /\ ret.at = 0
          /\ ret.err # "LOC_ERROR_001" => IsLocation(ret.val) /\ ret.at \in LiveLocs

\* C1 witness: a refused construction, with two Locations alive, one of
\* them of more than one element.
C1_Witness ==
    /\ ret.op = "Location.__new__"
    /\ ret.err = "LOC_ERROR_001"
    /\ LiveLocs = LocCells
    /\ \E c \in LiveLocs : nltkLocation_END(locs[c]) > locs[c].start + 1

\* What union returns or raises, by the contexts and the offsets of its
\* operands.
C2_UnionResult ==
    ret.op = "Location.union" =>
        LET a == locs[ret.self]
            b == locs[ret.other]
            contiguous == nltkLocation_END(a) = b.start \/ nltkLocation_END(b) = a.start
        IN  /\ ContextOf(a) = ContextOf(b) /\ contiguous =>
                /\ ret.err = NoErr
                /\ IsLocation(ret.val)
                /\ ret.val.start = Min(a.start, b.start)
                /\ nltkLocation_END(ret.val) = Max(nltkLocation_END(a), nltkLocation_END(b))
                /\ ContextOf(ret.val) = ContextOf(a)
                /\ ret.at \notin {ret.self, ret.other}
            /\ ContextOf(a) = ContextOf(b) /\ ~contiguous =>
                ret.err = "LOC_ERROR_005" /\ ret.val = NULL
            /\ ContextOf(a) # ContextOf(b) =>
                ret.err \in {"LOC_ERROR_003", "LOC_ERROR_004"} /\ ret.val = NULL

\* union leaves both operands as they were.
C2_OperandsKept ==
    ret'.op = "Location.union" =>
        /\ locs'[ret'.self] = locs[ret'.self]
        /\ locs'[ret'.other] = locs[ret'.other]

\* C2: with equal contexts union succeeds exactly when the two are
\* contiguous, and returns the span from the lower start to the higher end
\* in that context; otherwise it raises LOC_ERROR_005; with different
\* contexts it raises LOC_ERROR_003 or LOC_ERROR_004 whatever the offsets.
\* The operands are left as they were.
C2_Union == []C2_UnionResult /\ [][C2_OperandsKept]_vars

\* C2 witness: the union of two different spans, the second one first.
C2_Witness ==
    /\ ret.op = "Location.union"
    /\ ret.err = NoErr
    /\ ret.self # ret.other
    /\ nltkLocation_END(locs[ret.other]) = locs[ret.self].start
    /\ nltkLocation_END(ret.val) - ret.val.start >= 2

\* What the documentation of prec and succ calls "self != other".
LocationsDiffer(self, other) == nltkLocation__cmp__(lc_heap, self, other) # 0

\* C3: with equal contexts prec returns true iff self.end <= other.start and
\* self != other; with different contexts it raises instead of returning.
C3_PrecAsDocumented ==
    ret.op = "Location.prec" =>
        LET self == locs[ret.self]
            other == locs[ret.other]
        IN  IF ContextOf(self) = ContextOf(other)
            THEN /\ ret.err = NoErr
                 /\ (ret.val = PyInt(1)) <=>
                       (/\ nltkLocation_END(self) <= other.start
                        /\ LocationsDiffer(self, other))
                 /\ ret.val \in {PyInt(0), PyInt(1)}
            ELSE ret.err \in {"LOC_ERROR_003", "LOC_ERROR_004"} /\ ret.val = NULL

\* C4: with equal contexts succ returns true iff other.end <= self.start and
\* self != other; with different contexts it raises instead of returning.
C4_SuccAsDocumented ==
    ret.op = "Location.succ" =>
        LET self == locs[ret.self]
            other == locs[ret.other]
        IN  IF ContextOf(self) = ContextOf(other)
            THEN /\ ret.err = NoErr
                 /\ (ret.val = PyInt(1)) <=>
                       (/\ nltkLocation_END(other) <= self.start
                        /\ LocationsDiffer(self, other))
                 /\ ret.val \in {PyInt(0), PyInt(1)}
            ELSE ret.err \in {"LOC_ERROR_003", "LOC_ERROR_004"} /\ ret.val = NULL

\* C4 witness: succ answers false for two equal zero-length spans, which
\* satisfy other.end <= self.start.
C4_Witness ==
    /\ ret.op = "Location.succ"
    /\ ret.self # ret.other
    /\ ret.val = PyInt(0)
    /\ ContextOf(locs[ret.self]) = ContextOf(locs[ret.other])
    /\ nltkLocation_END(locs[ret.other]) <= locs[ret.self].start

\* The three cases in which C5 says two spans overlap.
OverlapCases(a, b) ==
    \/ a.start <= b.start /\ b.start < nltkLocation_END(a)
    \/ b.start <= a.start /\ a.start < nltkLocation_END(b)
    \/ /\ a.start = nltkLocation_END(a)
       /\ b.start = nltkLocation_END(b)
       /\ a.start = b.start

Range(q) == {q[k] : k \in 1..Len(q)}

\* The names of a Type, in the order it holds them, and its (name, value)
\* pairs.
NamesOf(type) == pnl_heap[type.prop_names].ob_item
PairsOf(type) ==
    {[name |-> NamesOf(type)[i], value |-> type.prop_vals[i]] : i \in 1..type.ob_size}
KeysOf(type) == {p.name : p \in PairsOf(type)}

\* The overrides a call of extend passes: none when it has no keywords.
Overrides(keywords) == IF keywords = NULL THEN {} ELSE Range(keywords.items)

\* What the claim C6 says of the pairs of b.extend(o).
ExtendedPairs(b, o) ==
    {p \in PairsOf(b) : \A e \in o : e.name # p.name} \cup o

\* C6 as the specification states it: b.extend(o) is a new bag, whose pairs
\* are those of o and those of b under the keys o does not have, and whose
\* size is the number of keys of b and o together.
C6_ExtendIsNewBag ==
    ret.op = "Type.extend" =>
        LET b == types[ret.self]
            o == Overrides(ret.args)
        IN  /\ ret.err = NoErr
            /\ ret.at \in LiveTypes \ {ret.self}
            /\ PairsOf(types[ret.at]) = ExtendedPairs(b, o)
            /\ types[ret.at].ob_size = Cardinality(KeysOf(b) \cup {e.name : e \in o})

\* The result of b.extend(o): b itself when extend is called without
\* keywords, otherwise a new bag; in both cases with the pairs and the size
\* the specification states.
C6_ExtendResult ==
    ret.op = "Type.extend" =>
        LET b == types[ret.self]
            o == Overrides(ret.args)
        IN  /\ ret.err = NoErr
            /\ ret.at \in LiveTypes
            /\ ret.val = types[ret.at]
            /\ (ret.at = ret.self) <=> (ret.args = NULL)
            /\ PairsOf(types[ret.at]) = ExtendedPairs(b, o)
            /\ types[ret.at].ob_size = Cardinality(KeysOf(b) \cup {e.name : e \in o})

\* extend leaves b, and the names of b, as they were.
C6_SelfKept ==
    ret'.op = "Type.extend" =>
        /\ types'[ret'.self] = types[ret'.self]
        /\ pnl_heap'[types[ret'.self].prop_names].ob_item = NamesOf(types[ret'.self])

\* C6 (amended): b.extend(o) is b itself when no overrides are given and a
\* new bag otherwise; its keys are keys(b) union keys(o), each key of o with
\* o's value and each key only in b with b's value, its size is the number
\* of those keys, and b is unchanged.
C6_Extend == []C6_ExtendResult /\ [][C6_SelfKept]_vars

\* C6 witness: an extend where one key is only in b, one key is in both
\* with a different value, and one key is only in o.
C6_Witness ==
    /\ ret.op = "Type.extend"
    /\ ret.args # NULL
    /\ \E p \in PairsOf(types[ret.self]) :
          \A e \in Overrides(ret.args) : e.name # p.name
    /\ \E p \in PairsOf(types[ret.self]), e \in Overrides(ret.args) :
          e.name = p.name /\ e.value # p.value
    /\ \E e \in Overrides(ret.args) : e.name \notin KeysOf(types[ret.self])
    /\ ret.val.ob_size = 3

\* C7: b.select(keys) returns a bag with exactly the requested keys and b's
\* values for them, and fails with KeyNotFound (TYPE_ERROR_004), returning
\* no bag, whenever a requested key is absent from b.
C7_SelectKeyNotFound ==
    ret.op = "Type.select" =>
        LET b == types[ret.self]
            keys == Range(ret.args.ob_item)
        IN  IF keys \subseteq KeysOf(b)
            THEN /\ ret.err = NoErr
                 /\ ret.at \in LiveTypes
                 /\ PairsOf(types[ret.at]) = {p \in PairsOf(b) : p.name \in keys}
                 /\ KeysOf(types[ret.at]) = keys
            ELSE ret.err = "TYPE_ERROR_004" /\ ret.val = NULL

\* C7 witness: a select that asks for a key b does not have, among others.
C7_Witness ==
    /\ ret.op = "Type.select"
    /\ \E k \in Range(ret.args.ob_item) : k \notin KeysOf(types[ret.self])
    /\ \E k \in Range(ret.args.ob_item) : k \in KeysOf(types[ret.self])

\* C8: two bags compare equal iff they have the same size and the same
\* (key, value) pairs, however each was built; cmp returns that answer.
C8_EqualityByValue ==
    /\ \A c \in LiveTypes, d \in LiveTypes :
          (nltkType__cmp__(pnl_heap, types[c], types[d]) = 0) <=>
              (/\ types[c].ob_size = types[d].ob_size
               /\ PairsOf(types[c]) = PairsOf(types[d]))
    /\ ret.op = "Type.__cmp__" =>
          (ret.val = PyInt(0)) <=>
              (/\ types[ret.self].ob_size = types[ret.other].ob_size
               /\ PairsOf(types[ret.self]) = PairsOf(types[ret.other]))

\* C8 witness: cmp finds two bags of two pairs equal, held in two objects.
C8_Witness ==
    /\ ret.op = "Type.__cmp__"
    /\ ret.self # ret.other
    /\ ret.val = PyInt(0)
    /\ types[ret.self].ob_size = 2

\* The names of a bag are in strictly increasing order, one for each value.
SortedNoDuplicates(type) ==
    /\ Len(NamesOf(type)) = type.ob_size
    /\ Len(type.prop_vals) = type.ob_size
    /\ \A i, j \in 1..type.ob_size : i < j => NamesOf(type)[i] < NamesOf(type)[j]

\* C9: every bag new, extend and select produce holds no key twice and
\* keeps its keys in sorted order.
C9_SortedNoDuplicates ==
    \A c \in LiveTypes : SortedNoDuplicates(types[c])

\* C9 witness: a select that was given one key of b twice.
C9_Witness ==
    /\ ret.op = "Type.select"
    /\ Len(ret.args.ob_item) = 2
    /\ ret.args.ob_item[1] = ret.args.ob_item[2]
    /\ ret.args.ob_item[1] \in KeysOf(types[ret.self])
    /\ ret.at # ret.self
    /\ ret.val.ob_size = 1

\* A step leaves every bag and every annotation alive as it was: its names,
\* its values, its type and its span.
C10_ObjectsKept ==
    /\ \A c \in LiveTypes :
          /\ types'[c] = types[c]
          /\ pnl_heap'[types[c].prop_names] # Free
          /\ pnl_heap'[types[c].prop_names].ob_item = NamesOf(types[c])
    /\ \A t \in {c \in DOMAIN tokens : tokens[c] # Free} : tokens'[t] = tokens[t]
    /\ \A l \in LiveLocs : locs'[l] = locs[l]

\* Attribute assignment on a bag or an annotation fails.
C10_SetattrFails ==
    ret.op \in {"Type.__setattr__", "Token.__setattr__"} =>
        ret.err = "TYPE_ERROR_005" /\ ret.val = PyInt(-1)

RECURSIVE IsPowerOfTwo(_)
IsPowerOfTwo(n) ==
    IF n < 1 THEN FALSE
    ELSE IF n = 1 THEN TRUE
    ELSE n % 2 = 0 /\ IsPowerOfTwo(n \div 2)

\* C11: FFT_DIT(input, length) returns -1 exactly when length is not a
\* power of two, and then every element of the input buffer is as it was
\* before the call; it returns 0 for every length that is a power of two.
C11_FFTLengthCheck ==
    fft.called =>
        /\ fft.val = -1 <=> ~IsPowerOfTwo(fft.length)
        /\ fft.val = 0 <=> IsPowerOfTwo(fft.length)
        /\ fft.val = -1 => input = fft.before

\* A length that is no power of two was refused, on a buffer that is not
\* all zero.
C11_Witness ==
    /\ fft.called
    /\ fft.val = -1
    /\ fft.length = 3
    /\ \E i \in DOMAIN input : input[i].Re # 0

\* C12: feature extraction with a frame width that is not a power of two
\* fails and delivers no cepstral vector to the caller.
C12_FailsFast ==
    (extract = "returned" /\ ~IsPowerOfTwo(featureParameters.frameWidth)) =>
        Len(features) = 0

\* With a frame width of 3, FeatureExtract returned vectors, the first one
\* the squared moduli of the frame as it was filled, not transformed.
C12_Witness ==
    /\ extract = "returned"
    /\ featureParameters.frameWidth = 3
    /\ readsInside(Len(voice), 3, featureParameters.frameStep)
    /\ Len(features) >= 1
    /\ features[1] = [j \in 0..2 |->
            (TableSize * (voice[j + 2] - voice[j + 1])) ^ 2]
    /\ \E j \in 0..2 : features[1][j] # 0

\* floor((N-1 - (frameWidth-frameStep)) / frameStep), on the integers.
frameCount(N, frameWidth, frameStep) ==
    ((N - 1) - (frameWidth - frameStep)) \div frameStep

\* C13: for every sample count N >= 1, frame width and frame step >= 1,
\* FeatureExtract returns, and the number of frames it produces and
\* GetFrameNum reports is floor((N-1 - (frameWidth-frameStep)) / frameStep).
C13_FrameCount ==
    extract \in {"returned", "killed"} =>
        /\ extract = "returned"
        /\ frameNum = frameCount(Len(voice), featureParameters.frameWidth,
                                 featureParameters.frameStep)
        /\ Len(features) = frameNum

\* A buffer shorter than a frame: the count wrapped around.
C13_Witness ==
    /\ extract = "returned"
    /\ Len(voice) = 1
    /\ featureParameters = [frameWidth |-> MaxFrameWidth, frameStep |-> 1]
    /\ frameNum = 2 ^ UIntBits - (MaxFrameWidth - 1)
    /\ Len(features) = frameNum

\* C14: ReadWav either returns a buffer of exactly (number at offset 40) >> 1
\* samples together with that length, or returns no buffer; it returns no
\* buffer when the file cannot be opened and when fewer samples follow the
\* header than it declares.
C14_ReadWavAllOrNothing ==
    wav.state = "returned" =>
        /\ \/ wav.voice.null
           \/ /\ wavFile.hasHeader
              /\ Len(wav.voice.samples) = wavFile.declared \div 2
              /\ wav.voiceLength = wavFile.declared \div 2
        /\ ~wavFile.exists => wav.voice.null
        /\ (wavFile.hasHeader /\ Len(wavFile.tail) < wavFile.declared \div 2) =>
               wav.voice.null

\* A file without the 44 bytes of a header, and a buffer returned for it.
C14_Witness ==
    /\ wav.state = "returned"
    /\ wavFile.exists
    /\ ~wavFile.hasHeader
    /\ ~wav.voice.null

RECURSIVE exactSum(_, _)
exactSum(d, n) ==
    IF n = 0 THEN 0 ELSE vecs[n - 1][d] + exactSum(d, n - 1)

\* C16 as stated: for desired_codewords = 1 vecquant returns one codeword
\* that is, component by component, the arithmetic mean of the vectors
\* (the double nearest to it).
C16_ExactMean ==
    (desired_codewords = 1 /\ vq.pc = "return") =>
        /\ num_codewords = 1
        /\ \A d \in Dimensions :
               cwords[0][d] = round(exactSum(d, num_vectors), num_vectors)

\* C16: for desired_codewords = 1 vecquant neither splits nor iterates,
\* and returns one codeword that is, component by component, the sum of
\* the vectors times the reciprocal of their number, each operation
\* rounded: it differs from the arithmetic mean by a relative error of at
\* most (num_vectors + 2) / 2^MantissaBits.
C16_MeanUpToRounding ==
    desired_codewords = 1 =>
        /\ vq.pc \notin {"iterate", "copy"}
        /\ vq.pc = "return" =>
               /\ num_codewords = 1
               /\ \A d \in Dimensions :
                      LET sum == exactSum(d, num_vectors)
                          diff == cwords[0][d] * num_vectors - sum
                      IN  (IF diff < 0 THEN -diff ELSE diff) * (2 ^ MantissaBits)
                              <= (num_vectors + 2) * sum

\* The vectors 1, 2, 2: the codeword returned is not the double nearest
\* to 5/3.
C16_Witness ==
    /\ desired_codewords = 1
    /\ vq.pc = "return"
    /\ num_vectors = 3
    /\ \A d \in Dimensions :
           /\ exactSum(d, 3) = double(5)
           /\ cwords[0][d] # round(double(5), 3)

\* C17: main fails with "Too many input vectors!" if and only if the input
\* holds more than MAX_VECTORS vectors; an input of at most MAX_VECTORS
\* vectors is read completely and quantized; nothing is written past vecs.
C17_TooManyIff ==
    LET total == num_vectors + Len(stdin)
    IN  /\ num_vectors <= MaxVectors
        /\ vq.stderr = "Too many input vectors!" => total > MaxVectors
        /\ vq.pc = "vecquant" => (stdin = <<>> /\ total <= MaxVectors)

\* An input of exactly MAX_VECTORS vectors, all of them read, is refused.
C17_Witness ==
    /\ vq.pc = "exit"
    /\ vq.stderr = "Too many input vectors!"
    /\ num_vectors = MaxVectors
    /\ stdin = <<>>

\* C18: comparison orders spans of one context by start, then by end, and
\* returns zero only when both are equal; for two spans whose unit or source
\* differ it returns "less than" in both directions and raises no error.
\* Both implementations of the comparison are held to it.
lexOrder(s1, e1, s2, e2) ==
    IF s1 < s2 THEN -1 ELSE IF s1 > s2 THEN 1
    ELSE IF e1 < e2 THEN -1 ELSE IF e1 > e2 THEN 1 ELSE 0

\* The claim on one result [val, exc] of comparing self with other.
comparesAsClaimed(r, self, other) ==
    IF CHECK_LOCATION_CONTEXTS_EQ(lc_heap, self.context, other.context) = NoErr
    THEN /\ r.val = lexOrder(self.start, nltkLocation_END(self),
                             other.start, nltkLocation_END(other))
         /\ r.val = 0 <=> (self.start = other.start
                           /\ nltkLocation_END(self) = nltkLocation_END(other))
         /\ r.exc = NoErr
    ELSE r.val < 0 /\ r.exc = NoErr

\* The part of C18 that nltkLocation__cmp__ of ctoken.c is held to.
C18_ctoken ==
    \A a \in LiveLocs, b \in LiveLocs :
        comparesAsClaimed(
            [val |-> nltkLocation__cmp__(lc_heap, locs[a], locs[b]),
             exc |-> nltkLocation__cmp__exc(lc_heap, locs[a], locs[b])],
            locs[a], locs[b])

C18_CompareOrder ==
    /\ C18_ctoken
    /\ \A a \in LiveLocs, b \in LiveLocs :
           comparesAsClaimed(
               location_compare(locationObject(lc_heap, locs[a]),
                                locationObject(lc_heap, locs[b])),
               locs[a], locs[b])

\* Two live spans of different units: location_compare returns -1 with the
\* ValueError of check_units_and_source still set.
C18_Witness ==
    \E a \in LiveLocs, b \in LiveLocs :
        /\ lc_heap[locs[a].context].unit # lc_heap[locs[b].context].unit
        /\ location_compare(locationObject(lc_heap, locs[a]),
                            locationObject(lc_heap, locs[b])).val = -1
        /\ location_compare(locationObject(lc_heap, locs[b]),
                            locationObject(lc_heap, locs[a])).exc # NoErr
        /\ nltkLocation__cmp__(lc_heap, locs[a], locs[b]) = -1
        /\ nltkLocation__cmp__(lc_heap, locs[b], locs[a]) = -1

\* C19: a length-1 span of the compact layout and a length-1 span of the
\* full layout (built by nltkLocation_copy) with the same start and context
\* cannot be told apart: they compare equal, have the same hash, end and
\* length, and give equal results for start_loc, end_loc, union, prec, succ
\* and overlaps, whatever the other operand.
LocationsAtHand ==
    {locs[c] : c \in LiveLocs}
        \cup (IF nltkLocation_Check(ret.val) THEN {ret.val} ELSE {})

\* The operands to try: the objects at hand and every object
\* Location.__new__ builds from offsets in 0..MaxIndex and a known context.
Operands ==
    LocationsAtHand
        \cup {newLocationObject(s, e, c) :
                  <<s, e, c>> \in {t \in IndexArgs \X (IndexArgs \cup {NULL})
                                           \X (1..Len(lc_heap)) :
                                       newLocationError(t[1], t[2]) = NoErr}}

\* The results of every operation on self, alone and with operand o.
resultsAlone(self) ==
    <<nltkLocation_END(self), nltkLocation_length(self),
      nltkLocation__hash__(self),
      nltkLocation_start_loc_isSelf(self), nltkLocation_start_loc(self),
      nltkLocation_end_loc_isSelf(self), nltkLocation_end_loc(self)>>

resultsWith(self, o) ==
    LET cerr == CHECK_LOCATION_CONTEXTS_EQ(lc_heap, self.context, o.context)
    IN  <<cerr,
          nltkLocation__cmp__(lc_heap, self, o),
          nltkLocation__cmp__(lc_heap, o, self),
          nltkLocation__cmp__exc(lc_heap, self, o),
          nltkLocation__add__error(self, o), nltkLocation__add__error(o, self),
          IF nltkLocation__add__error(self, o) = NoErr
          THEN nltkLocation__add__(self, o) ELSE NULL,
          IF nltkLocation__add__error(o, self) = NoErr
          THEN nltkLocation__add__(o, self) ELSE NULL,
          nltkLocation_prec(self, o), nltkLocation_prec(o, self),
          nltkLocation_succ(self, o), nltkLocation_succ(o, self),
          nltkLocation_overlaps(self, o), nltkLocation_overlaps(o, self)>>

\* c is compact, f is a full-layout span of length 1 at the same place.
sameLen1(c, f) ==
    /\ nltkLen1Location_Check(c)
    /\ nltkLocation_CheckExact(f)
    /\ f.start = c.start
    /\ f.context = c.context
    /\ long(f.end - f.start) = 1

C19_Len1Indistinguishable ==
    \A c \in LocationsAtHand, f \in LocationsAtHand :
        sameLen1(c, f) =>
            /\ nltkLocation__cmp__(lc_heap, c, f) = 0
            /\ nltkLocation__cmp__(lc_heap, f, c) = 0
            /\ resultsAlone(c) = resultsAlone(f)
            /\ \A o \in Operands : resultsWith(c, o) = resultsWith(f, o)

\* A union has just built the full-layout span of length 1 while the
\* compact span of the same place is live.
C19_Witness ==
    /\ ret.op = "Location.union"
    /\ ret.err = NoErr
    /\ \E c \in LiveLocs : sameLen1(locs[c], ret.val)
    /\ Cardinality(Operands) > 3

\* What start_loc and end_loc return: the zero-length span at the start,
\* respectively the end, of self, in the context of self; self itself when
\* self is zero-length already, else a new object.
C20_Result ==
    ret.op \in {"Location.start_loc", "Location.end_loc"} =>
        LET s == locs[ret.self]
            offset == IF ret.op = "Location.start_loc" THEN s.start
                      ELSE nltkLocation_END(s)
        IN  /\ ret.err = NoErr
            /\ nltkLocation_Check(ret.val)
            /\ ret.val.start = offset
            /\ nltkLocation_END(ret.val) = offset
            /\ nltkLocation_length(ret.val) = 0
            /\ ret.val.context = s.context
            /\ nltkLocation_length(s) = 0 <=> ret.at = ret.self
            /\ ret.at # 0 => locs[ret.at] = ret.val

\* self is left as it was.
C20_SelfKept ==
    ret'.op \in {"Location.start_loc", "Location.end_loc"} =>
        locs'[ret'.self] = locs[ret'.self]

\* C20: s.start_loc() is the zero-length span at s.start and s.end_loc()
\* the zero-length span at s.end, both with the unit and source of s; a
\* zero-length s is returned itself; s keeps its start, end and context.
C20_StartEndLoc == []C20_Result /\ [][C20_SelfKept]_vars

\* end_loc of a compact length-1 span, the new object kept by the caller,
\* next to a zero-length span whose start_loc is the span itself.
C20_Witness ==
    /\ ret.op = "Location.end_loc"
    /\ nltkLen1Location_Check(locs[ret.self])
    /\ ret.at \in LiveLocs \ {ret.self}
    /\ nltkLocation_start_loc_isSelf(locs[ret.at])

\* start_loc of a zero-length span has returned the span itself.
C20_WitnessSelf ==
    /\ ret.op = "Location.start_loc"
    /\ ret.at = ret.self
    /\ \E c \in LiveLocs : nltkLocation_length(locs[c]) > 1

\* What get and has return: has is 1 exactly when the property is a key of
\* self; get returns the value of self under the key, and raises the
\* KeyError TYPE_ERROR_002 when self has no such key.
C21_Result ==
    /\ ret.op = "Type.has" =>
           LET b == types[ret.self]
               k == ret.args.ob_item[1]
           IN  /\ ret.err = NoErr
               /\ ret.val = PyInt(IF k \in KeysOf(b) THEN 1 ELSE 0)
    /\ ret.op = "Type.get" =>
           LET b == types[ret.self]
               k == ret.args.ob_item[1]
           IN  IF k \in KeysOf(b)
               THEN /\ ret.err = NoErr
                    /\ [name |-> k, value |-> ret.val] \in PairsOf(b)
               ELSE ret.err = "TYPE_ERROR_002" /\ ret.val = NULL
    /\ \A c \in LiveTypes, k \in PropNames :
           nltkType_get(pnl_heap, types[c], k).err = NoErr
               <=> nltkType_has(pnl_heap, types[c], k) = PyInt(1)

\* Neither call changes a Type or a property name list.
C21_BagKept ==
    ret'.op \in {"Type.has", "Type.get"} =>
        /\ types' = types
        /\ pnl_heap' = pnl_heap

\* C21: b.has(k) is true exactly when k is a key of b; b.get(k) returns the
\* value of b for k when k is present and fails with a KeyError when it is
\* absent; get succeeds if and only if has is true; neither changes b.
C21_GetHas == []C21_Result /\ [][C21_BagKept]_vars

\* get has just failed on a Type of two properties, the second of which is
\* a key of the other live Type.
C21_Witness ==
    /\ ret.op = "Type.get"
    /\ ret.err = "TYPE_ERROR_002"
    /\ types[ret.self].ob_size = 2
    /\ \E c \in LiveTypes :
           /\ types[c].ob_size = 2
           /\ ret.args.ob_item[1] = NamesOf(types[c])[2]

(***************************************************************************)
(* Properties of Token.extend and Token.select.                            *)
(***************************************************************************)
\* The bag operation behind a call of Token.extend or Token.select on the
\* bag b: the exception it raises and the bag it returns.
bagOperation(op, b, args) ==
    IF op = "Token.extend"
    THEN IF args.ob_type = "tuple"
         THEN [err |-> nltkType_extend_error(args), obj |-> NULL]
         ELSE [err |-> NoErr,
               obj |-> IF nltkType_extend_isSelf(args) THEN b
                       ELSE nltkType_extend(pnl_heap, pnl_cache, pnl_next_cell,
                                            b, args).obj]
    ELSE IF nltkType_select_error(args) # NoErr
         THEN [err |-> nltkType_select_error(args), obj |-> NULL]
         ELSE [err |-> NoErr,
               obj |-> IF nltkType_select_isSelf(args) THEN b
                       ELSE nltkType_select(pnl_heap, pnl_cache, pnl_next_cell,
                                            b, args).obj]

\* A call of extend or select on the Token s: when the bag operation
\* fails, its exception is raised and no Token is returned; else a new
\* Token is returned whose loc is the loc object of s and whose type is
\* the bag the operation gives; s is left as it was.
C22_Step ==
    ret'.op \in {"Token.extend", "Token.select"} =>
        LET s == tokens[ret'.self]
            r == bagOperation(ret'.op, types[s.type], ret'.args)
        IN  /\ tokens'[ret'.self] = s
            /\ types'[s.type] = types[s.type]
            /\ ret'.err = r.err
            /\ IF r.err # NoErr
               THEN ret'.val = NULL /\ ret'.at = 0 /\ tokens' = tokens
               ELSE /\ ret'.at \in DOMAIN tokens
                    /\ tokens[ret'.at] = Free
                    /\ tokens'[ret'.at] = ret'.val
                    /\ ret'.val.ob_type = "Token"
                    /\ ret'.val.loc = s.loc
                    /\ types'[ret'.val.type] = r.obj

\* C22: Token.extend and Token.select return a new Token whose loc is the
\* very loc of the original and whose type is the result of the same
\* operation on the type of the original; when the operation on the type
\* fails no Token is returned; the original is unchanged.
C22_ExtendSelect == [][C22_Step]_vars

\* select has returned a new Token with the loc of the original and a
\* smaller bag, after a call that failed.
C22_Witness ==
    /\ ret.op = "Token.select"
    /\ ret.err = NoErr
    /\ ret.at \in LiveTokens \ {ret.self}
    /\ tokens[ret.at].loc = PyLocRef(1)
    /\ tokens[ret.at].loc = tokens[ret.self].loc
    /\ types[tokens[ret.at].type].ob_size < types[tokens[ret.self].type].ob_size

\* extend with a positional argument has failed and returned no Token.
C22_WitnessFailure ==
    /\ ret.op = "Token.extend"
    /\ ret.err = "TYPE_ERROR_003"
    /\ ret.val = NULL

\* C23: the shared tables are initialized before any frame is processed
\* and stay valid for as long as a SpeechProc object can use them: in every
\* order of constructing, using and destroying the objects, FeatureExtract
\* reads live, fully initialized tables, and no table is deleted twice.
C23_TablesValid ==
    /\ access.op = "FeatureExtract" => access.wc = "live" /\ access.h = "live"
    /\ access.op = "~SpeechProc" => access.wc = "live" /\ access.h = "live"
    /\ \A i \in Instances :
           instances[i].state = "alive" =>
               /\ tableState(wc, instances[i].Cepstrum_order) = "live"
               /\ tableState(h, featureParameters.frameWidth) = "live"

\* Two objects were made and the first destroyed: the second has just read
\* the tables the destructor deleted.
C23_Witness ==
    /\ access.op = "FeatureExtract"
    /\ access.wc = "deleted"
    /\ access.h = "deleted"
    /\ \E i \in Instances : instances[i].state = "destroyed"
    /\ Len(arrays) = 4
    /\ ~arrays[1].deleted

\* Both objects destroyed: the second destructor has deleted the same two
\* arrays again.
C23_WitnessTwice ==
    /\ access.op = "~SpeechProc"
    /\ access.wc = "deleted"
    /\ \A i \in Instances : instances[i].state = "destroyed"

\* C24: for every sample count N with N-1 >= frameWidth - frameStep, every
\* sample index feature extraction reads, i*frameStep + j and
\* i*frameStep + j + 1 for each frame i and each j < frameWidth, is at most
\* N-1, inside the sample buffer; the call returns.
C24_ReadsInBuffer ==
    LET N == Len(voice)
        width == featureParameters.frameWidth
        step == featureParameters.frameStep
    IN  (extract \in {"returned", "killed"} /\ N - 1 >= width - step) =>
            /\ \A k \in sampleIndices(N, width, step) : 0 <= k /\ k <= N - 1
            /\ extract = "returned"
            /\ Len(features) = frameNum

\* Two frames or more were read, the last one up to the last sample of the
\* buffer.
C24_Witness ==
    /\ extract = "returned"
    /\ Len(voice) - 1 >= featureParameters.frameWidth - featureParameters.frameStep
    /\ frameNum >= 2
    /\ featureParameters.frameStep >= 2
    /\ Len(voice) - 1 \in sampleIndices(Len(voice), featureParameters.frameWidth,
                                       featureParameters.frameStep)

\* C25: for every desired_codewords that main accepts, every index used
\* into cwords, curcwds, oldcwds, qvec and qc during vecquant is below
\* MAX_CODEWORDS.
C25_IndicesInBounds ==
    /\ (vq.pc = "while" /\ num_codewords < desired_codewords) =>
           \A k \in splitIndices(num_codewords) : k < MaxCodewords
    /\ vq.pc \in {"iterate", "copy", "return"} => num_codewords <= MaxCodewords
    /\ vq.status \notin {"killed", "corrupted"}

\* MAX_CODEWORDS + 1 codewords were asked for: the split of MAX_CODEWORDS
\* codewords wrote past the arrays.
C25_Witness ==
    /\ desired_codewords = MaxCodewords + 1
    /\ num_codewords = MaxCodewords
    /\ vq.pc = "exit"
    /\ vq.status = "killed"

\* The codewords asked for fit the arrays: no split writes past them.
codewordsFit ==
    \A k \in 0..MaxCodewords :
        2 ^ k < desired_codewords => 2 * (2 ^ k) <= MaxCodewords

C26_TerminatesInRange ==
    /\ <>(codewordsFit => vq.pc = "return")
    /\ []((codewordsFit /\ vq.pc \in {"iterate", "copy", "return"}) =>
              (num_codewords = 1 \/ num_codewords \div 2 < desired_codewords))

C27_ClosedOnReturn == wav.state = "returned" => ~wav.open

\* ReadWav has returned NULL from a file that exists and whose header was
\* read, the samples being fewer than declared: the path of lines 113-118,
\* which returns without fclose(fp).
C27_Witness ==
    /\ wav.state = "returned"
    /\ wavFile.exists
    /\ wavFile.hasHeader
    /\ wav.voice.null
    /\ wav.voiceLength > Len(wavFile.tail)
    /\ wav.open

\* The answers of self.succ(other) and self.overlaps(other) for the operands
\* of the last call, when that call was one of the two and did not raise.
succAndOverlaps ==
    LET self == locs[ret.self]
        other == locs[ret.other]
    IN  /\ nltkLocation_succ(self, other) = PyInt(1)
        /\ nltkLocation_overlaps(self, other) = PyInt(1)

\* The last call was succ or overlaps on two spans with the same context.
succOrOverlapsCalled ==
    /\ ret.op \in {"Location.succ", "Location.overlaps"}
    /\ ret.err = NoErr
    /\ ContextOf(locs[ret.self]) = ContextOf(locs[ret.other])

\* C28: for two spans with the same context, overlaps(other) and
\* succ(other) are never both true.
C28_NeverBoth ==
    succOrOverlapsCalled => ~(ret.val = PyInt(1) /\ succAndOverlaps)

\* C28 as the code has it: for two spans with the same context,
\* overlaps(other) and succ(other) are both true exactly when other is a
\* zero-length span at the start of a self that is not zero-length; in
\* every other case at most one of them is true.
C28_BothOnlyAtStart ==
    succOrOverlapsCalled =>
        LET self == locs[ret.self]
            other == locs[ret.other]
        IN  /\ ret.val \in {PyInt(0), PyInt(1)}
            /\ ret.op = "Location.succ" =>
                  ret.val = nltkLocation_succ(self, other)
            /\ ret.op = "Location.overlaps" =>
                  ret.val = nltkLocation_overlaps(self, other)
            /\ succAndOverlaps <=>
                  (/\ other.start = nltkLocation_END(other)
                   /\ other.start = self.start
                   /\ self.start < nltkLocation_END(self))

\* self.succ(other) has answered true for an other that self overlaps.
C28_Witness ==
    /\ succOrOverlapsCalled
    /\ ret.op = "Location.succ"
    /\ ret.val = PyInt(1)
    /\ succAndOverlaps
    /\ locs[ret.other].start = locs[ret.self].start

\* A call of getLocationContext built a new context: the cell at next_cell
\* was overwritten and next_cell moved on.
lcMiss == lc_next_cell >= 0 /\ lc_next_cell' # lc_next_cell

\* A call of getPropertyNameList built a new list.
pnlMiss == pnl_next_cell >= 0 /\ pnl_next_cell' # pnl_next_cell

\* The cells of the two caches that held, before the call, an entry equal
\* to the one the call built.
lcCellsEqualToNew ==
    {k \in 1..LC_CACHE_SIZE :
        /\ lc_cache[k] # 0
        /\ lc_heap[lc_cache[k]] = lc_heap'[lc_cache'[lc_next_cell + 1]]}
pnlCellsEqualToNew ==
    {k \in 1..PnlCacheCells :
        /\ pnl_cache[k] # 0
        /\ pnl_heap[pnl_cache[k]].ob_item
              = pnl_heap'[pnl_cache'[pnl_next_cell + 1]].ob_item}

\* C29: getLocationContext and getPropertyNameList return the cached entry
\* whenever an entry equal to the request is stored in any cell of the
\* cache; a new entry is built, and overwrites a cell, only when no cell
\* holds an equal one.
C29_HitWheneverCached ==
    [][/\ lcMiss => lcCellsEqualToNew = {}
       /\ pnlMiss => pnlCellsEqualToNew = {}]_vars

\* What the search loops do: a new entry is built only when no cell other
\* than the one at next_cell holds an equal one.
C29_HitUnlessAtNextCell ==
    [][/\ lcMiss => lcCellsEqualToNew \subseteq {lc_next_cell + 1}
       /\ pnlMiss => pnlCellsEqualToNew \subseteq {pnl_next_cell + 1}]_vars

\* The first list built since the cache was filled with the lists of
\* (a, b) and (c) has the names of the list that was in the cell at
\* next_cell: the request (a, b) was not served from the cache, which held
\* its list, and the Type returned has a second list of the same names.
C29_Witness ==
    /\ ret.op = "Type.__new__"
    /\ ret.err = NoErr
    /\ Len(pnl_heap) = 3
    /\ ret.val.prop_names = 3
    /\ pnl_cache[1] = 3
    /\ pnl_heap[1].ob_refcnt > 0
    /\ pnl_heap[3].ob_item = pnl_heap[1].ob_item

\* The entries sortPropertyArray read and wrote in the last call of
\* Type.__new__ with keyword arguments, whose property array holds the
\* keywords as PyDict_Next delivered them.
sortAccessed ==
    sortPropertyArrayAccesses(ret.args.items, Len(ret.args.items))

sortCalled == ret.op = "Type.__new__" /\ ret.args.ob_type = "dict"

\* C30: for every property array of size n >= 0, sortPropertyArray reads
\* and writes only entries with index in [0, n): no step accesses the entry
\* at index -1 or at index n.
C30_SortInBounds ==
    sortCalled =>
        \A a \in sortAccessed : 0 <= a[2] /\ a[2] < Len(ret.args.items)

\* What the code does keep: every write is inside the array, and every read
\* is inside it or at index -1.
C30_WritesInBounds ==
    sortCalled =>
        \A a \in sortAccessed :
            /\ -1 <= a[2] /\ a[2] < Len(ret.args.items)
            /\ a[1] = "write" => 0 <= a[2]

\* Type(b=.., a=..) with the keywords walked in that order: the second
\* entry moved to the front, and the loop test read the name at index -1.
C30_Witness ==
    /\ sortCalled
    /\ ret.err = NoErr
    /\ Len(ret.args.items) = 2
    /\ ret.args.items[1].name > ret.args.items[2].name
    /\ <<"write", 0>> \in sortAccessed
    /\ <<"read", -1>> \in sortAccessed
====
